---------------------------- MODULE Spec2Model ----------------------------
(***************************************************************************)
(* Model of the push-to-talk daemon: the recording session orchestrator    *)
(* (core/recording_session.py) with its collaborators, the hotkey monitor  *)
(* (core/keyboard_monitor.py) and the input sanitizer (utils/sanitizer.py).*)
(*                                                                         *)
(* Text is a sequence of one-character strings; the control characters are *)
(* written "ESC", "LF", "CR" and "TAB".  An audio buffer is a sequence of  *)
(* frames [n, amp]: n samples, all of amplitude amp/1000.                   *)
(***************************************************************************)
EXTENDS Integers, Sequences, FiniteSets, TLC

(***************************************************************************)
(* Bounds of the model.                                                    *)
(***************************************************************************)
MaxCalls == 3
MaxCancels == 1
MaxPresses == 2
MaxPending == 2
MaxTextLen == 3
MaxStreams == 2
MaxFrames == 3
MaxCapCalls == 4
MaxAppPresses == 2
MaxPanes == 3
MaxEvents == 3
MaxLogSize == 2
MaxAppends == 4

(***************************************************************************)
(* Program constants.                                                      *)
(***************************************************************************)
SampleRate == 16000
MinDurationMs == 300
MinRmsMilli == 10
DefaultMaxLength == 500

(***************************************************************************)
(* utils/sanitizer.py                                                      *)
(***************************************************************************)
\* A text is a sequence of characters; BT, BS, DQ and SQ stand for the
\* backtick, the backslash, the double and the single quote, ESC, LF, CR and
\* TAB for the control characters.
SHELL_METACHARACTERS ==
  << "$", "BT", "BS", "DQ", "SQ", "|", "&", ";", ">", "<", "(", ")",
     "{", "}", "[", "]", "!", "*", "?", "~", "#" >>

Whitespace == {" ", "LF", "CR", "TAB"}
AnsiParams == {"0", "1", ";"}
\* The letters of the model's alphabet, for [a-zA-Z].
AnsiLetters == {"a", "c", "e", "f", "h", "i", "m", "o", "r", "A", "H", "K", "P", "T"}

IsBlank(text) == \A i \in 1..Len(text) : text[i] \in Whitespace

\* Length of the match of \x1b\[[0-9;]*[a-zA-Z] that starts at position i, or 0.
RECURSIVE ParamRun(_, _)
ParamRun(text, j) ==
  IF j <= Len(text) /\ text[j] \in AnsiParams THEN ParamRun(text, j + 1) ELSE j

AnsiMatchLen(text, i) ==
  IF i + 1 <= Len(text) /\ text[i] = "ESC" /\ text[i + 1] = "["
  THEN LET j == ParamRun(text, i + 2)
       IN  IF j <= Len(text) /\ text[j] \in AnsiLetters THEN j - i + 1 ELSE 0
  ELSE 0

\* re.sub(pattern, '', text): leftmost non-overlapping matches, one pass.
RECURSIVE RemoveAnsiFrom(_, _)
RemoveAnsiFrom(text, i) ==
  IF i > Len(text) THEN << >>
  ELSE LET m == AnsiMatchLen(text, i)
       IN  IF m > 0 THEN RemoveAnsiFrom(text, i + m)
           ELSE << text[i] >> \o RemoveAnsiFrom(text, i + 1)

RemoveAnsi(text) == RemoveAnsiFrom(text, 1)

ReplaceNewlines(text) ==
  [i \in 1..Len(text) |-> IF text[i] \in {"LF", "CR"} THEN " " ELSE text[i]]

\* str.replace(c, '\\' + c)
RECURSIVE EscapeChar(_, _)
EscapeChar(text, c) ==
  IF text = << >> THEN << >>
  ELSE (IF Head(text) = c THEN << "BS", c >> ELSE << Head(text) >>)
       \o EscapeChar(Tail(text), c)

\* for char in SHELL_METACHARACTERS: result = result.replace(char, '\\' + char)
RECURSIVE EscapeFrom(_, _)
EscapeFrom(text, k) ==
  IF k > Len(SHELL_METACHARACTERS) THEN text
  ELSE EscapeFrom(EscapeChar(text, SHELL_METACHARACTERS[k]), k + 1)

EscapeShell(text) == EscapeFrom(text, 1)

Truncate(text, maxLength) ==
  SubSeq(text, 1, IF Len(text) < maxLength THEN Len(text) ELSE maxLength)

RECURSIVE LStrip(_)
LStrip(text) ==
  IF text # << >> /\ Head(text) \in Whitespace THEN LStrip(Tail(text)) ELSE text

RECURSIVE RStrip(_)
RStrip(text) ==
  IF text # << >> /\ text[Len(text)] \in Whitespace
  THEN RStrip(SubSeq(text, 1, Len(text) - 1)) ELSE text

Strip(text) == RStrip(LStrip(text))

\* Variant that truncates before it escapes.
SanitizeMutant(text, maxLength, escapeShell) ==
  IF IsBlank(text) THEN << >>
  ELSE LET r1 == RemoveAnsi(text)
           r2 == ReplaceNewlines(r1)
           r3 == Truncate(r2, maxLength)
           r4 == IF escapeShell THEN EscapeShell(r3) ELSE r3
       IN  Strip(r4)

Sanitize(text, maxLength, escapeShell) ==
  IF IsBlank(text) THEN << >>
  ELSE LET r1 == RemoveAnsi(text)
           r2 == ReplaceNewlines(r1)
           r3 == IF escapeShell THEN EscapeShell(r2) ELSE r2
           r4 == Truncate(r3, maxLength)
       IN  Strip(r4)

(***************************************************************************)
(* An InputSanitizer object and one call of sanitize on it.                *)
(***************************************************************************)
VARIABLES
  sanCfg,   \* the object: max_length, escape_shell
  sanIn,    \* the text sanitize is called with
  sanOut,   \* what the call returned; NoResult before the call
  sanOut2   \* what sanitize(sanOut) returned; NoResult before that call

sanVars == << sanCfg, sanIn, sanOut, sanOut2 >>

NoResult == << "None" >>

SanChars == {"a", " ", "$", "BS", ";", "ESC", "[", "m", "LF"}

RECURSIVE TextsUpTo(_)
TextsUpTo(n) ==
  IF n = 0 THEN { << >> }
  ELSE LET shorter == TextsUpTo(n - 1)
       IN  shorter \cup { Append(t, c) : t \in shorter, c \in SanChars }

\* InputSanitizer(max_length, escape_shell); small max_length values stand
\* for a text longer than the limit.
SanConfigs ==
  [max_length : {MaxTextLen - 1, MaxTextLen, DefaultMaxLength},
   escape_shell : BOOLEAN]

\* "echo $PATH; rm -rf /"
EchoPath ==
  << "e", "c", "h", "o", " ", "$", "P", "A", "T", "H", ";", " ",
     "r", "m", " ", "-", "r", "f", " ", "/" >>

\* An escape sequence inside another one: ESC ESC [ m [ m
NestedAnsi == << "ESC", "ESC", "[", "m", "[", "m" >>

SanInputs == TextsUpTo(MaxTextLen) \cup { EchoPath, NestedAnsi }

SanInit ==
  /\ sanCfg \in SanConfigs
  /\ sanIn \in SanInputs
  /\ sanOut = NoResult
  /\ sanOut2 = NoResult

\* result = sanitizer.sanitize(text)
SanitizeCall ==
  /\ sanOut = NoResult
  /\ sanOut' = Sanitize(sanIn, sanCfg.max_length, sanCfg.escape_shell)
  /\ UNCHANGED << sanCfg, sanIn, sanOut2 >>

\* again = sanitizer.sanitize(result), as is_safe(result) computes it
SanitizeAgain ==
  /\ sanOut # NoResult
  /\ sanOut2 = NoResult
  /\ sanOut2' = Sanitize(sanOut, sanCfg.max_length, sanCfg.escape_shell)
  /\ UNCHANGED << sanCfg, sanIn, sanOut >>

SanRest ==
  /\ sanCfg = [max_length |-> DefaultMaxLength, escape_shell |-> TRUE]
  /\ sanIn = << >>
  /\ sanOut = NoResult
  /\ sanOut2 = NoResult


(***************************************************************************)
(* core/audio_capture.py: one AudioCapture object, the threads that call   *)
(* start_recording, stop_recording and cancel_recording on it, and the     *)
(* device's callback thread of every stream it opened.  The three calls    *)
(* hold self._lock from entry to exit; stop_stream() returns only when no  *)
(* callback of the stream is in flight.                                    *)
(***************************************************************************)
VARIABLES
  capRec,      \* self._is_recording
  capStream,   \* self._stream: 0 (None) or a stream
  capFrames,   \* self._frames
  capLock,     \* self._lock: "free", or the call that holds it while it
               \* waits in stop_stream(): "stop" or "cancel"
  capStreams,  \* per stream: unborn, open, active, stopped, closed
  capCb,       \* per stream: the frame of the callback in flight, or NoFrame
  capFed,      \* callbacks the device has invoked
  capHist,     \* how every finished call ended, in order
  capRet,      \* what the last stop_recording returned
  capSince     \* frames appended since the last start that began a recording

capVars ==
  << capRec, capStream, capFrames, capLock, capStreams, capCb, capFed,
     capHist, capRet, capSince >>

\* if self._is_recording: in the callback
CallbackAppendsMutant(rec) == TRUE
CallbackAppends(rec) == rec

\* "with self._lock:" releases the lock when the block raises
LockAfterRaiseMutant(call) == call
LockAfterRaise(call) == "free"

NoFrame == [s |-> 0, k |-> 0]
NoBuffer == << NoFrame >>

CapInit ==
  /\ capRec = FALSE
  /\ capStream = 0
  /\ capFrames = << >>
  /\ capLock = "free"
  /\ capStreams = [s \in 1..MaxStreams |-> "unborn"]
  /\ capCb = [s \in 1..MaxStreams |-> NoFrame]
  /\ capFed = 0
  /\ capHist = << >>
  /\ capRet = NoBuffer
  /\ capSince = << >>

CapRest == CapInit

Unborn == { s \in 1..MaxStreams : capStreams[s] = "unborn" }
NewStream == CHOOSE s \in Unborn : \A o \in Unborn : s <= o

\* duration_seconds is proportional to the number of frames held.
DurationFrames == Len(capFrames)

\* start_recording()
CapStart ==
  /\ capLock = "free"
  /\ Len(capHist) < MaxCapCalls
  /\ IF capRec
     THEN /\ capHist' = Append(capHist, "start_noop")
          /\ UNCHANGED << capRec, capStream, capFrames, capStreams, capSince >>
     ELSE /\ Unborn # {}
          /\ capFrames' = << >>
          /\ capSince' = << >>
          /\ \E outcome \in {"ok", "open_raises", "start_raises"} :
               CASE outcome = "ok" ->
                      /\ capStream' = NewStream
                      /\ capStreams' = [capStreams EXCEPT ![NewStream] = "active"]
                      /\ capRec' = TRUE
                      /\ capHist' = Append(capHist, "start")
                 [] outcome = "open_raises" ->
                      /\ capHist' = Append(capHist, "start_raised")
                      /\ UNCHANGED << capStream, capStreams, capRec >>
                 [] outcome = "start_raises" ->
                      /\ capStream' = NewStream
                      /\ capStreams' = [capStreams EXCEPT ![NewStream] = "open"]
                      /\ capRec' = TRUE
                      /\ capHist' = Append(capHist, "start_raised")
  /\ UNCHANGED << capLock, capCb, capFed, capRet >>

\* with self._lock: ... self._is_recording = False, up to stop_stream()
StopEntry(call) ==
  /\ capLock = "free"
  /\ Len(capHist) < MaxCapCalls
  /\ IF ~capRec
     THEN /\ capHist' = Append(capHist, call \o "_idle")
          /\ capRet' = IF call = "stop" THEN << >> ELSE capRet
          /\ UNCHANGED << capRec, capLock, capFrames >>
     ELSE /\ capRec' = FALSE
          /\ IF capStream # 0
             THEN /\ capLock' = call
                  /\ UNCHANGED << capHist, capRet, capFrames >>
             ELSE /\ capHist' = Append(capHist, call)
                  /\ capRet' = IF call = "stop" THEN capFrames ELSE capRet
                  /\ capFrames' = IF call = "cancel" THEN << >> ELSE capFrames
                  /\ UNCHANGED capLock
  /\ UNCHANGED << capStream, capStreams, capCb, capFed, capSince >>

\* stop_stream(); close(); self._stream = None, and the rest of the call
StopExit(call) ==
  /\ capLock = call
  /\ \E outcome \in {"ok", "stop_raises", "close_raises"} :
       CASE outcome = "ok" ->
              /\ capCb[capStream] = NoFrame
              /\ capStreams' = [capStreams EXCEPT ![capStream] = "closed"]
              /\ capStream' = 0
              /\ capHist' = Append(capHist, call)
              /\ capRet' = IF call = "stop" THEN capFrames ELSE capRet
              /\ capFrames' = IF call = "cancel" THEN << >> ELSE capFrames
              /\ capLock' = "free"
         [] outcome = "stop_raises" ->
              /\ \E left \in {capStreams[capStream], "stopped"} :
                   capStreams' = [capStreams EXCEPT ![capStream] = left]
              /\ capHist' = Append(capHist, call \o "_raised")
              /\ capLock' = LockAfterRaise(call)
              /\ UNCHANGED << capStream, capRet, capFrames >>
         [] outcome = "close_raises" ->
              /\ capCb[capStream] = NoFrame
              /\ capStreams' = [capStreams EXCEPT ![capStream] = "stopped"]
              /\ capHist' = Append(capHist, call \o "_raised")
              /\ capLock' = LockAfterRaise(call)
              /\ UNCHANGED << capStream, capRet, capFrames >>
  /\ UNCHANGED << capRec, capCb, capFed, capSince >>

CapStopEntry == StopEntry("stop")
CapStopExit == StopExit("stop")
CapCancelEntry == StopEntry("cancel")
CapCancelExit == StopExit("cancel")

\* The device invokes the callback of an active stream with the next frame.
CbInvoke(s) ==
  /\ capStreams[s] = "active"
  /\ capCb[s] = NoFrame
  /\ capFed < MaxFrames
  /\ capFed' = capFed + 1
  /\ capCb' = [capCb EXCEPT ![s] = [s |-> s, k |-> capFed + 1]]
  /\ UNCHANGED << capRec, capStream, capFrames, capLock, capStreams, capHist,
                  capRet, capSince >>

\* with self._lock: if self._is_recording: self._frames.append(in_data)
CbRun(s) ==
  /\ capCb[s] # NoFrame
  /\ capLock = "free"
  /\ capCb' = [capCb EXCEPT ![s] = NoFrame]
  /\ IF CallbackAppends(capRec)
     THEN /\ capFrames' = Append(capFrames, capCb[s])
          /\ capSince' = Append(capSince, capCb[s])
     ELSE UNCHANGED << capFrames, capSince >>
  /\ UNCHANGED << capRec, capStream, capLock, capStreams, capFed, capHist,
                  capRet >>

(***************************************************************************)
(* core/speech_to_text.py: one call of SpeechToText.transcribe, with the   *)
(* child process and the two scratch files it works through.               *)
(***************************************************************************)
VARIABLES
  trIn,          \* what the call meets: the audio, the disk, the child
  trPc,          \* position of the call: entry, run, read, cleanup, done
  trAudioFile,   \* the .npy scratch file exists
  trResultFile,  \* content of the .result.json scratch file, or "missing"
  trPending,     \* what the try block returned or raised
  trOut          \* what transcribe returned or raised

trVars == << trIn, trPc, trAudioFile, trResultFile, trPending, trOut >>

\* What the child can leave in the result file: nothing, text that is not
\* JSON, JSON that is not an object, an object without the "text" key, an
\* object whose error field holds a message, a well-formed result.
ResultFiles == {"missing", "garbage", "not_object", "no_text", "error", "ok"}

TrInputs ==
  [short : BOOLEAN,       \* audio.size == 0 or len(audio) < 1600
   saveFails : BOOLEAN,   \* np.save raises
   timedOut : BOOLEAN,    \* the child runs longer than timeout_seconds
   code : {0, 1},         \* proc.returncode
   file : ResultFiles]

NoOutcome == [kind |-> "none", msg |-> ""]
Returned == [kind |-> "result", msg |-> ""]
Raised(kind, msg) == [kind |-> kind, msg |-> msg]

TrInit ==
  /\ trIn \in TrInputs
  /\ trPc = "entry"
  /\ trAudioFile = FALSE
  /\ trResultFile = "missing"
  /\ trPending = NoOutcome
  /\ trOut = NoOutcome

TrRest ==
  /\ trIn = [short |-> TRUE, saveFails |-> FALSE, timedOut |-> FALSE,
             code |-> 0, file |-> "missing"]
  /\ trPc = "entry"
  /\ trAudioFile = FALSE
  /\ trResultFile = "missing"
  /\ trPending = NoOutcome
  /\ trOut = NoOutcome

\* The short-audio return, then NamedTemporaryFile(delete=False) and np.save
TrEntry ==
  /\ trPc = "entry"
  /\ IF trIn.short
     THEN /\ trOut' = Returned
          /\ trPc' = "done"
          /\ UNCHANGED trAudioFile
     ELSE /\ trAudioFile' = TRUE
          /\ IF trIn.saveFails
             THEN /\ trOut' = Raised("OSError", "No space left on device")
                  /\ trPc' = "done"
             ELSE /\ trPc' = "run"
                  /\ UNCHANGED trOut
  /\ UNCHANGED << trIn, trResultFile, trPending >>

\* proc = subprocess.run(..., timeout=timeout_seconds)
TrRun ==
  /\ trPc = "run"
  /\ trResultFile' = trIn.file
  /\ IF trIn.timedOut
     THEN /\ trPending' = Raised("TimeoutExpired", "timed out")
          /\ trPc' = "cleanup"
     ELSE /\ trPc' = "read"
          /\ UNCHANGED trPending
  /\ UNCHANGED << trIn, trAudioFile, trOut >>

\* if proc.returncode != 0
ExitFailedMutant(code) == FALSE
ExitFailed(code) == code # 0

\* The statements of the try block after subprocess.run.
ReadResult(code, file) ==
  IF ExitFailed(code)
    THEN Raised("RuntimeError", "Transcription subprocess failed")
  ELSE IF file = "missing"
    THEN Raised("RuntimeError", "Transcription produced no result")
  ELSE IF file = "garbage"
    THEN Raised("JSONDecodeError", "Expecting value")
  ELSE IF file = "not_object"
    THEN Raised("AttributeError", "object has no attribute get")
  ELSE IF file = "error"
    THEN Raised("RuntimeError", "Transcription error")
  ELSE IF file = "no_text"
    THEN Raised("KeyError", "text")
  ELSE Returned

TrRead ==
  /\ trPc = "read"
  /\ trPending' = ReadResult(trIn.code, trResultFile)
  /\ trPc' = "cleanup"
  /\ UNCHANGED << trIn, trAudioFile, trResultFile, trOut >>

\* if "Transcription" in str(e)
MentionsTranscription(msg) ==
  msg \in {"Transcription subprocess failed", "Transcription produced no result",
           "Transcription error", "Transcription failed"}

\* The except clauses of transcribe.
Handled(pending) ==
  IF pending.kind = "result" THEN pending
  ELSE IF pending.kind = "TimeoutExpired"
    THEN Raised("TimeoutError", "Transcription exceeded timeout")
  ELSE IF MentionsTranscription(pending.msg) THEN pending
  ELSE Raised("RuntimeError", "Transcription failed")

\* The except clauses and the finally block: both files are unlinked.
TrCleanup ==
  /\ trPc = "cleanup"
  /\ trOut' = Handled(trPending)
  /\ trAudioFile' = FALSE
  /\ trResultFile' = "missing"
  /\ trPc' = "done"
  /\ UNCHANGED << trIn, trPending >>

(***************************************************************************)
(* app.py: the application's main thread (run, stop), the signal handler,  *)
(* the hotkey callbacks, and as much of the orchestrator as the shutdown   *)
(* path touches: one session that is idle, recording, with its worker, or  *)
(* cancelled.                                                              *)
(***************************************************************************)
VARIABLES
  appTui,        \* self._use_tui and self.tui
  appMain,       \* the main thread: init, blocked, finally, exited
  appRunning,    \* self._running
  appShutdown,   \* self._shutdown_requested
  appMonitor,    \* the keyboard monitor: off, listening, stopped
  appSession,    \* the orchestrator's session: idle, recording, worker, cancelled
  appPresses,    \* hotkey presses delivered by the monitor
  appLog         \* history: signal, monitor_stop, cancel, inject, exit

appVars ==
  << appTui, appMain, appRunning, appShutdown, appMonitor, appSession,
     appPresses, appLog >>

AppInit ==
  /\ appTui \in BOOLEAN
  /\ appMain = "init"
  /\ appRunning = FALSE
  /\ appShutdown = FALSE
  /\ appMonitor = "off"
  /\ appSession = "idle"
  /\ appPresses = 0
  /\ appLog = << >>

AppRest ==
  /\ appTui = FALSE
  /\ appMain = "init"
  /\ appRunning = FALSE
  /\ appShutdown = FALSE
  /\ appMonitor = "off"
  /\ appSession = "idle"
  /\ appPresses = 0
  /\ appLog = << >>

\* run(): self.start(), then tui.run() or the signal.pause() loop
AppStart ==
  /\ appMain = "init"
  /\ appMonitor' = "listening"
  /\ appRunning' = TRUE
  /\ appMain' = "blocked"
  /\ UNCHANGED << appTui, appShutdown, appSession, appPresses, appLog >>

\* signal_handler(signum, frame), run by the main thread
AppSignal ==
  /\ appMain = "blocked"
  /\ ~appShutdown
  /\ appShutdown' = TRUE
  /\ appRunning' = FALSE
  /\ appLog' = Append(appLog, "signal")
  /\ UNCHANGED << appTui, appMain, appMonitor, appSession, appPresses >>

\* while self._running and not self._shutdown_requested: signal.pause()
AppLoopExit ==
  /\ appMain = "blocked"
  /\ ~appTui
  /\ ~(appRunning /\ ~appShutdown)
  /\ appMain' = "finally"
  /\ UNCHANGED << appTui, appRunning, appShutdown, appMonitor, appSession,
                  appPresses, appLog >>

\* self.tui.run() returns: the user quit the TUI
AppTuiExit ==
  /\ appMain = "blocked"
  /\ appTui
  /\ appMain' = "finally"
  /\ UNCHANGED << appTui, appRunning, appShutdown, appMonitor, appSession,
                  appPresses, appLog >>

\* if not self._running: return
StopSkipped(running) == ~running

\* finally: self.stop(); run() returns and the process exits
AppStop ==
  /\ appMain = "finally"
  /\ appMain' = "exited"
  /\ IF StopSkipped(appRunning)
     THEN /\ appLog' = Append(appLog, "exit")
          /\ UNCHANGED << appRunning, appMonitor, appSession >>
     ELSE /\ appMonitor' = "stopped"
          /\ appSession' = "cancelled"
          /\ appRunning' = FALSE
          /\ appLog' = appLog \o << "monitor_stop", "cancel", "exit" >>
  /\ UNCHANGED << appTui, appShutdown, appPresses >>

\* _on_hotkey_press: if not self._running: return; start_recording()
AppHotkeyPress ==
  /\ appMonitor = "listening"
  /\ appMain # "exited"
  /\ appPresses < MaxAppPresses
  /\ appPresses' = appPresses + 1
  /\ appSession' = IF appRunning /\ appSession # "recording"
                   THEN "recording" ELSE appSession
  /\ UNCHANGED << appTui, appMain, appRunning, appShutdown, appMonitor, appLog >>

\* stop_recording(): TRANSCRIBING, and the worker thread is started
StopRecording == IF appSession = "idle" THEN "idle" ELSE "worker"

\* _on_hotkey_release: if not self._running: return; stop_recording()
AppHotkeyRelease ==
  /\ appMonitor = "listening"
  /\ appMain # "exited"
  /\ appPresses > 0
  /\ appRunning
  /\ appSession' = StopRecording
  /\ UNCHANGED << appTui, appMain, appRunning, appShutdown, appMonitor,
                  appPresses, appLog >>

\* The max-duration timer of a recording fires: _check_max_duration
AppMaxDuration ==
  /\ appSession = "recording"
  /\ appMain # "exited"
  /\ appSession' = StopRecording
  /\ UNCHANGED << appTui, appMain, appRunning, appShutdown, appMonitor,
                  appPresses, appLog >>

\* The worker thread reaches self._tmux_injector.inject_text(sanitized)
AppWorkerInject ==
  /\ appSession = "worker"
  /\ appMain # "exited"
  /\ appSession' = "idle"
  /\ appLog' = Append(appLog, "inject")
  /\ UNCHANGED << appTui, appMain, appRunning, appShutdown, appMonitor,
                  appPresses >>

(***************************************************************************)
(* utils/session_detector.py: the pane list and the choice of a target.    *)
(* A command is a sequence of characters.                                  *)
(***************************************************************************)
VARIABLES
  tgtPanes,      \* self._panes
  tgtOut         \* what get_best_target returned last

tgtVars == << tgtPanes, tgtOut >>

\* str.lower() on the characters that occur
LowerChar(c) == IF c = "C" THEN "c" ELSE IF c = "N" THEN "n" ELSE c

Lower(str) == [i \in 1..Len(str) |-> LowerChar(str[i])]

\* needle in hay
Contains(hay, needle) ==
  \E k \in 0..(Len(hay) - Len(needle)) :
    \A i \in 1..Len(needle) : hay[k + i] = needle[i]

CLAUDE_INDICATORS ==
  { << "c", "l", "a", "u", "d", "e" >>,
    << "c", "l", "a", "u", "d", "e", "-", "c", "o", "d", "e" >>,
    << "n", "p", "x", " ", "c", "l", "a", "u", "d", "e" >> }

\* any(indicator.lower() in command_lower for indicator in CLAUDE_INDICATORS)
RunsClaude(pane) ==
  \E indicator \in CLAUDE_INDICATORS :
    Contains(Lower(pane.current_command), Lower(indicator))

\* pane_current_command values tmux reports
Commands ==
  { << "c", "l", "a", "u", "d", "e" >>,
    << "C", "l", "a", "u", "d", "e" >>,
    << "n", "o", "d", "e" >>,
    << "z", "s", "h" >> }

\* The pane lists refresh() can build: pane i of one window
PaneLists ==
  UNION { [1..n -> [pane_index : {0}, current_command : Commands,
                    is_active : BOOLEAN]] : n \in 0..MaxPanes }

Numbered(panes) ==
  [i \in 1..Len(panes) |-> [panes[i] EXCEPT !.pane_index = i - 1]]

NoTarget == [found |-> FALSE, pane_index |-> 0]

ClaudeSession(pane) == [found |-> TRUE, pane_index |-> pane.pane_index]

NotAsked == [found |-> FALSE, pane_index |-> 0 - 1]

\* find_claude_panes()
FindClaudePanes(panes) ==
  LET hits == SelectSeq(panes, RunsClaude)
  IN  [i \in 1..Len(hits) |-> ClaudeSession(hits[i])]

FirstClaudePaneMutant(claude_panes) == claude_panes[Len(claude_panes)]

\* return claude_panes[0]
FirstClaudePane(claude_panes) == claude_panes[1]

ActiveClaude(pane) == pane.is_active /\ RunsClaude(pane)

\* get_best_target()
GetBestTarget(panes) ==
  LET claude_panes == FindClaudePanes(panes)
      active == SelectSeq(panes, ActiveClaude)
  IN  IF claude_panes = << >> THEN NoTarget
      ELSE IF active # << >> THEN ClaudeSession(active[1])
      ELSE FirstClaudePane(claude_panes)

TgtInit ==
  /\ tgtPanes \in { Numbered(l) : l \in PaneLists }
  /\ tgtOut = NotAsked

TgtRest ==
  /\ tgtPanes = << >>
  /\ tgtOut = NotAsked

TgtGetBestTarget ==
  /\ tgtOut' = GetBestTarget(tgtPanes)
  /\ UNCHANGED tgtPanes

\* refresh(): the pane list is rebuilt from tmux list-panes
TgtRefresh ==
  /\ tgtOut # NotAsked
  /\ tgtPanes' \in { Numbered(l) : l \in PaneLists }
  /\ tgtOut' = NotAsked

(***************************************************************************)
(* ui/tui_app.py, ui/widgets/status_panel.py, ui/widgets/recording_timer.py*)
(* The TUI's handlers run on its main thread, one delivered event at a     *)
(* time; the status panel holds one pill per entry of STATUS_PILLS.        *)
(***************************************************************************)
VARIABLES
  tuiMounted,    \* StatusPanel._initialized (on_mount has run)
  tuiStatus,     \* StatusPanel.current_status
  tuiPills,      \* the statuses whose pill is active
  tuiTimer,      \* RecordingTimer._is_running
  tuiEvents,     \* history: the events delivered, in order
  tuiSet         \* history: the status of the last set_status call, if any

tuiVars == << tuiMounted, tuiStatus, tuiPills, tuiTimer, tuiEvents, tuiSet >>

\* STATUS_PILLS: the statuses that have a pill
PillStatuses ==
  { "recording", "transcribing", "injecting", "complete", "error", "idle" }

NoEvent == [kind |-> "none", status |-> "idle"]

StatusEvent(status) == [kind |-> "status", status |-> status]

SkippedEvent == [kind |-> "skipped", status |-> "idle"]

ErrorEvent == [kind |-> "error", status |-> "error"]

TuiInit ==
  /\ tuiMounted = FALSE
  /\ tuiStatus = "idle"
  /\ tuiPills = {}
  /\ tuiTimer = FALSE
  /\ tuiEvents = << >>
  /\ tuiSet = NoEvent

TuiRest == TuiInit

WatchCurrentStatusMutant(mounted, pills, status) ==
  IF ~mounted THEN pills ELSE pills \cup ({ status } \cap PillStatuses)

\* watch_current_status(status): the pill of status is activated, every
\* other pill deactivated
WatchCurrentStatus(mounted, pills, status) ==
  IF ~mounted THEN pills ELSE { status } \cap PillStatuses

\* on_mount: every pill is deactivated, _initialized = True; the reactive
\* attribute is then initialised, which calls its watcher with the default
TuiMount ==
  /\ ~tuiMounted
  /\ tuiMounted' = TRUE
  /\ tuiPills' = WatchCurrentStatus(TRUE, {}, tuiStatus)
  /\ UNCHANGED << tuiStatus, tuiTimer, tuiEvents, tuiSet >>

\* current_status = reactive(RecordingStatus.IDLE): an assignment calls the
\* watcher when the value changes
WatcherCalled(old, new) == old # new

\* set_status(status): self.current_status = status
SetStatus(pills, old, status) ==
  IF WatcherCalled(old, status)
  THEN WatchCurrentStatus(tuiMounted, pills, status)
  ELSE pills

\* statuses for which _update_status calls timer.stop()
TimerStops == { "transcribing", "complete", "error", "idle" }

\* _update_status(status)
TuiUpdateStatus(status) ==
  /\ tuiMounted
  /\ Len(tuiEvents) < MaxEvents
  /\ tuiPills' = SetStatus(tuiPills, tuiStatus, status)
  /\ tuiStatus' = status
  /\ tuiTimer' = IF status = "recording" THEN TRUE
                 ELSE IF status \in TimerStops THEN FALSE
                 ELSE tuiTimer
  /\ tuiEvents' = Append(tuiEvents, StatusEvent(status))
  /\ tuiSet' = StatusEvent(status)
  /\ UNCHANGED tuiMounted

\* _log_skipped(reason)
TuiLogSkipped ==
  /\ tuiMounted
  /\ Len(tuiEvents) < MaxEvents
  /\ tuiPills' = SetStatus(tuiPills, tuiStatus, "idle")
  /\ tuiStatus' = "idle"
  /\ tuiEvents' = Append(tuiEvents, SkippedEvent)
  /\ tuiSet' = StatusEvent("idle")
  /\ UNCHANGED << tuiMounted, tuiTimer >>

\* _log_error(error)
TuiLogError ==
  /\ tuiMounted
  /\ Len(tuiEvents) < MaxEvents
  /\ tuiPills' = SetStatus(tuiPills, tuiStatus, "error")
  /\ tuiStatus' = "error"
  /\ tuiEvents' = Append(tuiEvents, ErrorEvent)
  /\ tuiSet' = StatusEvent("error")
  /\ UNCHANGED << tuiMounted, tuiTimer >>

(***************************************************************************)
(* ui/models.py: LogBuffer, a deque(maxlen=max_size) of log entries.       *)
(***************************************************************************)
VARIABLES
  lbMaxSize,     \* the max_size argument of the constructor
  lbState,       \* new, built, or raised (the constructor raised ValueError)
  lbEntries,     \* self.entries
  lbHist         \* history: the entries appended since the last clear

lbVars == << lbMaxSize, lbState, lbEntries, lbHist >>

\* LogEntry(timestamp, level, message) without its timestamp
LogEntries == [level : { "INFO", "ERROR" }, message : { "msg1", "msg2" }]

LbInit ==
  /\ lbMaxSize \in (0 - 1)..MaxLogSize
  /\ lbState = "new"
  /\ lbEntries = << >>
  /\ lbHist = << >>

LbRest ==
  /\ lbMaxSize = 1
  /\ lbState = "new"
  /\ lbEntries = << >>
  /\ lbHist = << >>

\* __init__(max_size)
LbConstruct ==
  /\ lbState = "new"
  /\ lbState' = IF lbMaxSize <= 0 THEN "raised" ELSE "built"
  /\ UNCHANGED << lbMaxSize, lbEntries, lbHist >>

DequeAppendMutant(entries, maxlen, entry) ==
  IF Len(entries) >= maxlen THEN entries ELSE Append(entries, entry)

\* deque(maxlen=max_size).append: a full deque drops its leftmost item
DequeAppend(entries, maxlen, entry) ==
  IF Len(entries) >= maxlen
  THEN Append(Tail(entries), entry)
  ELSE Append(entries, entry)

\* append(level, message)
LbAppend(entry) ==
  /\ lbState = "built"
  /\ Len(lbHist) < MaxAppends
  /\ lbEntries' = DequeAppend(lbEntries, lbMaxSize, entry)
  /\ lbHist' = Append(lbHist, entry)
  /\ UNCHANGED << lbMaxSize, lbState >>

\* clear()
LbClear ==
  /\ lbState = "built"
  /\ lbHist # << >>
  /\ lbEntries' = << >>
  /\ lbHist' = << >>
  /\ UNCHANGED << lbMaxSize, lbState >>

\* Everything outside the session orchestrator and the keyboard monitor.
auxVars == << sanVars, capVars, trVars, appVars, tgtVars, tuiVars, lbVars >>

(***************************************************************************)
(* core/recording_session.py: the session orchestrator and the threads     *)
(* that run through it.  Thread 0 is the hotkey listener thread            *)
(* (start_recording, stop_recording), thread -1 the application's main     *)
(* thread (cancel), thread k >= 1 the max-duration timer of session k.     *)
(* A step is one access to shared state (a locked block, a collaborator    *)
(* call, a callback); thread-local computation joins the step it follows.  *)
(***************************************************************************)
VARIABLES
  cfg,        \* the injector the orchestrator was built with
  sessions,   \* every RecordingSession created; self._session is the last one
  timerRef,   \* self._max_duration_timer: 0 (None) or a timer thread
  thr,        \* per thread: position in the call it runs, its local audio
  acRec,      \* audio capture is recording
  nCalls,     \* start_recording, stop_recording and cancel calls made
  nCancels,   \* cancel calls made
  workers,    \* the _transcribe_and_inject threads, in dispatch order
  events,     \* callbacks delivered to the subscriber, in delivery order
  injLog,     \* what the injector did: keystrokes typed, tmux commands run
  sttLog      \* the audio buffers speech_to_text.transcribe was invoked with

sessVars ==
  << cfg, sessions, timerRef, thr, acRec, nCalls, nCancels, workers, events,
     injLog, sttLog >>

VARIABLES
  keyDown,        \* the physical key is held
  quartzOk,       \* the platform key-state API is available
  kPending,       \* native events the listener has not handled yet
  kListener,      \* self._listener: "none", "running" or "stopped"
  kState,         \* self._state
  kWatchdogRef,   \* self._watchdog_timer: 0 (None) or a watchdog
  kWatchdog,      \* per watchdog timer: unborn, armed, cancelled, firing, done
  kStopPolling,   \* self._stop_polling is set
  kPoller,        \* per poller thread: unborn, check, sample, release, exit
  kStop,          \* position of the thread that calls stop()
  kPresses,       \* on_press callbacks delivered
  kLog,           \* callbacks delivered, in delivery order
  kHeld           \* history: the key was not let go since each queued press
                  \* event was made (queued) and since the event of the press
                  \* being served was made (served)

kbdVars ==
  << keyDown, quartzOk, kPending, kListener, kState, kWatchdogRef, kWatchdog,
     kStopPolling, kPoller, kStop, kPresses, kLog, kHeld >>

Hot == 0
Main == 0 - 1
Timers == 1..MaxCalls
Threads == {Hot, Main} \cup Timers

NoText == << "None" >>
NoError == "None"

RecordingStatus ==
  { "idle", "recording", "transcribing", "injecting", "complete", "timeout",
    "cancelled", "error" }

\* FocusedInjector, or TmuxInjector with self._target found or None
Configs ==
  { [mode |-> "focused", target |-> FALSE],
    [mode |-> "tmux", target |-> TRUE],
    [mode |-> "tmux", target |-> FALSE] }

\* Buffers audio_capture.stop_recording() can return.
AudioInputs ==
  { << >>,
    << [n |-> 4799, amp |-> 300] >>,
    << [n |-> 4799, amp |-> 0] >>,
    << [n |-> 4800, amp |-> 9] >>,
    << [n |-> 4800, amp |-> 10] >>,
    << [n |-> 2400, amp |-> 0], [n |-> 2400, amp |-> 15] >> }

\* Texts the transcription child can write to its result file.
Texts ==
  { << >>, << "h", "i" >>, << "ESC", "[", "m" >>, << "a", "$" >> }

RECURSIVE AudioLen(_)
AudioLen(audio) ==
  IF audio = << >> THEN 0 ELSE Head(audio).n + AudioLen(Tail(audio))

RECURSIVE AudioSumSq(_)
AudioSumSq(audio) ==
  IF audio = << >> THEN 0
  ELSE Head(audio).n * Head(audio).amp * Head(audio).amp + AudioSumSq(Tail(audio))

\* Mutant: the gate uses the recognizer's own 0.1 s short-audio threshold.
TooShortMutant(audio) == AudioLen(audio) * 1000 < 100 * SampleRate

\* len(audio) / 16000 < MIN_RECORDING_DURATION
TooShort(audio) == AudioLen(audio) * 1000 < MinDurationMs * SampleRate

\* np.sqrt(np.mean(audio**2)) < MIN_AUDIO_RMS, amplitudes in 1/1000
TooQuiet(audio) ==
  AudioSumSq(audio) < MinRmsMilli * MinRmsMilli * AudioLen(audio)

\* Mutant: the silence check is made before the duration check.
GateReasonMutant(audio) ==
  IF AudioLen(audio) = 0 THEN "No audio captured"
  ELSE IF TooQuiet(audio) THEN "No speech detected"
  ELSE IF TooShort(audio) THEN "Too short (accidental press?)"
  ELSE "pass"

\* The checks at the head of _transcribe_and_inject, in the code's order.
GateReason(audio) ==
  IF AudioLen(audio) = 0 THEN "No audio captured"
  ELSE IF TooShort(audio) THEN "Too short (accidental press?)"
  ELSE IF TooQuiet(audio) THEN "No speech detected"
  ELSE "pass"

Cur == Len(sessions)

\* History: hist is the list of statuses written to a session, in write
\* order; Stamp counts the status writes made so far.
RECURSIVE WritesUpTo(_)
WritesUpTo(s) ==
  IF s = 0 THEN 0 ELSE Len(sessions[s].hist) + WritesUpTo(s - 1)

Stamp == WritesUpTo(Cur)

StatusOf(s) == IF s = 0 THEN "idle" ELSE sessions[s].status

\* with self._lock: if self._session: self._session.status = st
WriteStatus(st) ==
  IF Cur = 0 THEN sessions' = sessions
  ELSE sessions' = [sessions EXCEPT ![Cur].status = st,
                                    ![Cur].hist = Append(@, st)]

WriteStatusError(st, msg) ==
  IF Cur = 0 THEN sessions' = sessions
  ELSE sessions' = [sessions EXCEPT ![Cur].status = st, ![Cur].error = msg,
                                    ![Cur].hist = Append(@, st)]

\* A delivered callback; sid and by are history: the session the emitting call
\* or worker was started for, and the emitting worker (0: an API call).
Event(cb, arg, sid, by) ==
  [cb |-> cb, arg |-> arg, sid |-> sid, by |-> by, seq |-> 0]

\* A state-change callback; seq is history: the stamp of the write it reports.
StateEvent(st, sid, by, seq) ==
  [cb |-> "state", arg |-> st, sid |-> sid, by |-> by, seq |-> seq]

EmitState(st, sid, by, seq) ==
  events' = Append(events, StateEvent(st, sid, by, seq))

Emit(cb, arg, sid, by) == events' = Append(events, Event(cb, arg, sid, by))

IdleThread ==
  [pc |-> "idle", audio |-> << >>, sid |-> 0, stale |-> FALSE, seq |-> 0]

ThreadReturn(t) ==
  IF t \in Timers THEN [IdleThread EXCEPT !.pc = "done"] ELSE IdleThread

\* threading.Timer.cancel(): no effect on a timer that already fired
CancelTimer ==
  IF timerRef # 0 /\ thr[timerRef].pc = "armed" THEN timerRef ELSE 0

SessInit ==
  /\ cfg \in Configs
  /\ sessions = << >>
  /\ timerRef = 0
  /\ thr = [t \in Threads |->
              IF t \in Timers THEN [IdleThread EXCEPT !.pc = "unborn"]
              ELSE IdleThread]
  /\ acRec = FALSE
  /\ nCalls = 0
  /\ nCancels = 0
  /\ workers = << >>
  /\ events = << >>
  /\ injLog = << >>
  /\ sttLog = {}

(***************************************************************************)
(* start_recording, on the hotkey thread.                                  *)
(***************************************************************************)
\* with self._lock: return if already recording, else a new session
StartLock ==
  /\ thr[Hot].pc = "idle"
  /\ nCalls < MaxCalls
  /\ nCalls' = nCalls + 1
  /\ IF Cur > 0 /\ sessions[Cur].status = "recording"
     THEN UNCHANGED << sessions, thr >>
     ELSE /\ sessions' = Append(sessions,
                [status |-> "recording", transcription |-> NoText,
                 error |-> NoError, hist |-> << "recording" >>])
          /\ thr' = [thr EXCEPT ![Hot] =
                [IdleThread EXCEPT !.pc = "start_capture", !.sid = Cur + 1,
                                   !.seq = Stamp + 1]]
  /\ UNCHANGED << auxVars, kbdVars, cfg, timerRef, acRec, nCancels, workers, events, injLog, sttLog >>

\* self._audio_capture.start_recording(); the max-duration timer is started.
\* When opening the input stream raises, the exception leaves start_recording
\* before the timer exists; App._on_hotkey_press catches it and calls
\* App._on_error, the subscriber's error callback.
StartCapture ==
  /\ thr[Hot].pc = "start_capture"
  /\ \E raises \in BOOLEAN :
       IF raises
       THEN /\ Emit("error", "Failed to start recording", thr[Hot].sid, 0)
            /\ thr' = [thr EXCEPT ![Hot] = IdleThread]
            /\ UNCHANGED << acRec, timerRef >>
       ELSE /\ acRec' = TRUE
            /\ timerRef' = thr[Hot].sid
            /\ thr' = [thr EXCEPT ![Hot].pc = "start_notify",
                                  ![thr[Hot].sid].pc = "armed"]
            /\ UNCHANGED events
  /\ UNCHANGED << auxVars, kbdVars, cfg, sessions, nCalls, nCancels, workers, injLog, sttLog >>

\* self._notify_state_change(RecordingStatus.RECORDING)
StartNotify ==
  /\ thr[Hot].pc = "start_notify"
  /\ EmitState("recording", thr[Hot].sid, 0, thr[Hot].seq)
  /\ thr' = [thr EXCEPT ![Hot] = IdleThread]
  /\ UNCHANGED << auxVars, kbdVars, cfg, sessions, timerRef, acRec, nCalls, nCancels, workers, injLog, sttLog >>

(***************************************************************************)
(* stop_recording, on the hotkey thread (release) or on a max-duration     *)
(* timer thread (_check_max_duration).                                     *)
(***************************************************************************)
\* History: this call is a release that arrives after the max-duration timer of
\* the current session ran the stop path and the session left recording.
StaleRelease(t) ==
  /\ t = Hot
  /\ Cur > 0
  /\ sessions[Cur].status # "recording"
  /\ thr[Cur].pc = "done"

\* the timer is cancelled and forgotten; audio = audio_capture.stop_recording(),
\* which returns an empty buffer when the capture is not recording.  When
\* stopping the stream raises, the exception leaves stop_recording: on the
\* hotkey thread App._on_hotkey_release catches it and calls App._on_error, on a
\* timer thread nothing catches it.  A timer
\* runs MAX_RECORDING_DURATION seconds after Timer.start(), so the notify that
\* ends the start_recording call which armed it has returned by then.
StopAudio(t) ==
  /\ \/ t = Hot /\ thr[t].pc = "idle"
     \/ /\ t \in Timers /\ thr[t].pc = "armed"
        /\ ~(thr[Hot].pc = "start_notify" /\ thr[Hot].sid = t)
  /\ nCalls < MaxCalls
  /\ nCalls' = nCalls + 1
  /\ timerRef' = 0
  /\ acRec' = FALSE
  /\ \E raises \in (IF acRec THEN BOOLEAN ELSE {FALSE}) :
       IF raises
       THEN /\ thr' = [thr EXCEPT
                  ![t] = ThreadReturn(t),
                  ![CancelTimer] = IF CancelTimer = 0 \/ CancelTimer = t THEN @
                                   ELSE [@ EXCEPT !.pc = "cancelled"]]
            /\ IF t = Hot
               THEN Emit("error", "Failed to stop recording", Cur, 0)
               ELSE UNCHANGED events
       ELSE /\ \E a \in (IF acRec THEN AudioInputs ELSE {<< >>}) :
                 thr' = [thr EXCEPT
                   ![t] = [IdleThread EXCEPT !.pc = "stop_lock", !.audio = a,
                                             !.stale = StaleRelease(t)],
                   ![CancelTimer] = IF CancelTimer = 0 \/ CancelTimer = t THEN @
                                    ELSE [@ EXCEPT !.pc = "cancelled"]]
            /\ UNCHANGED events
  /\ UNCHANGED << auxVars, kbdVars, cfg, sessions, nCancels, workers, injLog, sttLog >>

\* with self._lock: return if no session, else status = TRANSCRIBING
StopLock(t) ==
  /\ thr[t].pc = "stop_lock"
  /\ IF Cur = 0
     THEN /\ thr' = [thr EXCEPT ![t] = ThreadReturn(t)]
          /\ UNCHANGED sessions
     ELSE /\ WriteStatus("transcribing")
          /\ thr' = [thr EXCEPT ![t].pc = "stop_notify", ![t].sid = Cur,
                                ![t].seq = Stamp + 1]
  /\ UNCHANGED << auxVars, kbdVars, cfg, timerRef, acRec, nCalls, nCancels, workers, events, injLog, sttLog >>

NewWorker(audio, sid, stale) ==
  [pc |-> "gate", audio |-> audio, owner |-> sid, stale |-> stale,
   tthr |-> "none", text |-> NoText, payload |-> << >>,
   msg |-> NoError, failed |-> FALSE, seq |-> 0, ar |-> FALSE]

\* self._notify_state_change(TRANSCRIBING); Thread(_transcribe_and_inject).start()
StopNotify(t) ==
  /\ thr[t].pc = "stop_notify"
  /\ EmitState("transcribing", thr[t].sid, 0, thr[t].seq)
  /\ workers' = Append(workers, NewWorker(thr[t].audio, thr[t].sid, thr[t].stale))
  /\ thr' = [thr EXCEPT ![t] = ThreadReturn(t)]
  /\ UNCHANGED << auxVars, kbdVars, cfg, sessions, timerRef, acRec, nCalls, nCancels, injLog, sttLog >>

(***************************************************************************)
(* cancel, on the application's main thread.                               *)
(***************************************************************************)
\* the timer is cancelled and forgotten; self._audio_capture.cancel_recording()
CancelAudio ==
  /\ thr[Main].pc = "idle"
  /\ nCalls < MaxCalls
  /\ nCancels < MaxCancels
  /\ nCalls' = nCalls + 1
  /\ nCancels' = nCancels + 1
  /\ timerRef' = 0
  /\ acRec' = FALSE
  /\ thr' = [thr EXCEPT
       ![Main] = [IdleThread EXCEPT !.pc = "cancel_lock"],
       ![CancelTimer] = IF CancelTimer = 0 THEN @ ELSE [@ EXCEPT !.pc = "cancelled"]]
  /\ UNCHANGED << auxVars, kbdVars, cfg, sessions, workers, events, injLog, sttLog >>

\* with self._lock: return if no session, else status = CANCELLED
CancelLock ==
  /\ thr[Main].pc = "cancel_lock"
  /\ IF Cur = 0
     THEN /\ thr' = [thr EXCEPT ![Main] = IdleThread]
          /\ UNCHANGED sessions
     ELSE /\ WriteStatus("cancelled")
          /\ thr' = [thr EXCEPT ![Main].pc = "cancel_notify", ![Main].sid = Cur,
                                ![Main].seq = Stamp + 1]
  /\ UNCHANGED << auxVars, kbdVars, cfg, timerRef, acRec, nCalls, nCancels, workers, events, injLog, sttLog >>

CancelNotify ==
  /\ thr[Main].pc = "cancel_notify"
  /\ EmitState("cancelled", thr[Main].sid, 0, thr[Main].seq)
  /\ thr' = [thr EXCEPT ![Main] = IdleThread]
  /\ UNCHANGED << auxVars, kbdVars, cfg, sessions, timerRef, acRec, nCalls, nCancels, workers, injLog, sttLog >>

\* app.py: self.sanitizer = InputSanitizer(self.config.security.max_input_length)
\* InputSanitizer is built with max_length only, in either injection mode:
\* escape_shell keeps its default.
AppEscapeShell == TRUE

AppSanitize(text) == Sanitize(text, DefaultMaxLength, AppEscapeShell)

\* sanitized = self._sanitizer.sanitize(transcription), for each text the
\* recognizer can return
SanitizedText == [x \in Texts |-> AppSanitize(x)]

(***************************************************************************)
(* _transcribe_and_inject, on worker thread w, and the transcribe thread   *)
(* it starts (speech_to_text.transcribe waits for the child process).      *)
(***************************************************************************)
WorkerIds == 1..Len(workers)

\* The gate; a buffer that passes starts the transcribe thread and is joined.
WorkerGate(w) ==
  /\ workers[w].pc = "gate"
  /\ LET reason == GateReason(workers[w].audio)
     IN  IF reason # "pass"
         THEN /\ WriteStatus("complete")
              /\ workers' = [workers EXCEPT ![w].pc = "skip_notify",
                                            ![w].msg = reason]
              /\ UNCHANGED sttLog
         ELSE /\ sttLog' = sttLog \cup {workers[w].audio}
              /\ workers' = [workers EXCEPT ![w].pc = "join",
                                            ![w].tthr = "running",
                                            ![w].audio = << >>]
              /\ UNCHANGED sessions
  /\ UNCHANGED << auxVars, kbdVars, cfg, timerRef, thr, acRec, nCalls, nCancels, events, injLog >>

\* self._notify_skipped(reason); return
WorkerSkipNotify(w) ==
  /\ workers[w].pc = "skip_notify"
  /\ Emit("skipped", workers[w].msg, workers[w].owner, w)
  /\ workers' = [workers EXCEPT ![w].pc = "done"]
  /\ UNCHANGED << auxVars, kbdVars, cfg, sessions, timerRef, thr, acRec, nCalls, nCancels, injLog, sttLog >>

\* How speech_to_text.transcribe ends: the child exits and a text is read from
\* its result file, the child fails (RuntimeError), or subprocess.run's own
\* timeout expires, the child is killed and TimeoutError is raised.
TranscribeOutcomes ==
  { [ok |-> TRUE, text |-> x, msg |-> NoError, end |-> "done"] : x \in Texts }
  \cup
  { [ok |-> FALSE, text |-> NoText, msg |-> "Transcription subprocess failed",
     end |-> "done"],
    [ok |-> FALSE, text |-> NoText, msg |-> "Transcription exceeded timeout",
     end |-> "killed"] }

\* join(timeout=TRANSCRIPTION_TIMEOUT) returns with the thread still alive
WorkerJoinTimeout(w) ==
  /\ workers[w].pc = "join"
  /\ workers[w].tthr = "running"
  /\ WriteStatusError("timeout", "Transcription timeout")
  /\ workers' = [workers EXCEPT ![w].pc = "timeout_notify",
                                ![w].seq = Stamp + 1]
  /\ UNCHANGED << auxVars, kbdVars, cfg, timerRef, thr, acRec, nCalls, nCancels, events, injLog, sttLog >>

\* Variant: the worker goes back to wait for the thread it gave up on.
AfterTimeoutMutant == "join"

\* return, after the timeout was reported
AfterTimeout == "done"

\* self._notify_state_change(TIMEOUT); self._on_error("Transcription timeout")
WorkerTimeoutNotify(w) ==
  /\ workers[w].pc = "timeout_notify"
  /\ events' = events \o << StateEvent("timeout", workers[w].owner, w, workers[w].seq),
                            Event("error", "Transcription timeout", workers[w].owner, w) >>
  /\ workers' = [workers EXCEPT ![w].pc = AfterTimeout]
  /\ UNCHANGED << auxVars, kbdVars, cfg, sessions, timerRef, thr, acRec, nCalls, nCancels, injLog, sttLog >>

\* The transcribe thread of a worker that gave up on it ends later: its result
\* goes to the thread's own result cell, which nothing reads any more.
AbandonedTranscribeEnds(w) ==
  /\ workers[w].pc \in {"timeout_notify", "done"}
  /\ workers[w].tthr = "running"
  /\ \E o \in TranscribeOutcomes :
       workers' = [workers EXCEPT ![w].tthr = o.end]
  /\ UNCHANGED << auxVars, kbdVars, cfg, sessions, timerRef, thr, acRec, nCalls, nCancels, events, injLog, sttLog >>

\* transcribe ends and join returns with the thread finished: its error is
\* re-raised, or its text is stored in the session under the lock
WorkerJoinDone(w) ==
  /\ workers[w].pc = "join"
  /\ workers[w].tthr = "running"
  /\ \E o \in TranscribeOutcomes :
       IF o.ok
       THEN /\ sessions' = IF Cur = 0 THEN sessions
                           ELSE [sessions EXCEPT ![Cur].transcription = o.text]
            /\ workers' = [workers EXCEPT ![w].pc = "on_transcription",
                                          ![w].tthr = o.end,
                                          ![w].text = o.text]
       ELSE /\ workers' = [workers EXCEPT ![w].pc = "error_lock",
                                          ![w].tthr = o.end,
                                          ![w].msg = o.msg]
            /\ UNCHANGED sessions
  /\ UNCHANGED << auxVars, kbdVars, cfg, timerRef, thr, acRec, nCalls, nCancels, events, injLog, sttLog >>

\* self._on_transcription(transcription); then the blank test and the sanitizer
WorkerOnTranscription(w) ==
  /\ workers[w].pc = "on_transcription"
  /\ Emit("transcription", workers[w].text, workers[w].owner, w)
  /\ IF IsBlank(workers[w].text)
     THEN workers' = [workers EXCEPT ![w].pc = "complete_lock"]
     ELSE workers' = [workers EXCEPT
            ![w].pc = "injecting_lock",
            ![w].payload = SanitizedText[workers[w].text]]
  /\ UNCHANGED << auxVars, kbdVars, cfg, sessions, timerRef, thr, acRec, nCalls, nCancels, injLog, sttLog >>

WorkerInjectingLock(w) ==
  /\ workers[w].pc = "injecting_lock"
  /\ WriteStatus("injecting")
  /\ workers' = [workers EXCEPT ![w].pc = "injecting_notify",
                                ![w].seq = Stamp + 1]
  /\ UNCHANGED << auxVars, kbdVars, cfg, timerRef, thr, acRec, nCalls, nCancels, events, injLog, sttLog >>

WorkerInjectingNotify(w) ==
  /\ workers[w].pc = "injecting_notify"
  /\ EmitState("injecting", workers[w].owner, w, workers[w].seq)
  /\ workers' = [workers EXCEPT ![w].pc = "inject"]
  /\ UNCHANGED << auxVars, kbdVars, cfg, sessions, timerRef, thr, acRec, nCalls, nCancels, injLog, sttLog >>

InjEntry(cmd, text, w, ok) == [cmd |-> cmd, text |-> text, w |-> w, ok |-> ok]

Raise(w, msg) == [workers EXCEPT ![w].pc = "error_lock", ![w].msg = msg]

\* After inject_text returned (its result is not read):
\*   if self._auto_return and sanitized: self._tmux_injector.send_enter()
\* auto_return is a settable property: the read sees whatever was last set.
\* Neither injector class defines send_enter, so the call raises AttributeError.
\* History: failed records that inject_text returned False, ar that
\* auto_return was read as true.
AfterInject(w, ok, autoReturn) ==
  IF autoReturn
  THEN [workers EXCEPT ![w].pc = "error_lock", ![w].failed = ~ok,
                       ![w].ar = TRUE,
                       ![w].msg = "object has no attribute 'send_enter'"]
  ELSE [workers EXCEPT ![w].pc = "complete_lock", ![w].failed = ~ok]

\* FocusedInjector.inject_text: False when keyboard.type raises
FocusedInject(w) ==
  LET text == workers[w].payload
  IN  IF text = << >>
      THEN /\ workers' = Raise(w, "Text cannot be empty")
           /\ UNCHANGED injLog
      ELSE \E ok, ar \in BOOLEAN :
             /\ injLog' = Append(injLog, InjEntry("type", text, w, ok))
             /\ workers' = AfterInject(w, ok, ar)

\* Mutant: inject_text goes on to send-keys whatever validate_target said.
TargetRejectedMutant(valid) == FALSE

\* if not self.validate_target(): raise RuntimeError(...)
TargetRejected(valid) == ~valid

\* TmuxInjector.inject_text: validate_target (list-panes), then send-keys;
\* False when send-keys exits non-zero, times out or cannot be run
TmuxInject(w) ==
  LET text == workers[w].payload
  IN  IF text = << >>
      THEN /\ workers' = Raise(w, "Text cannot be empty")
           /\ UNCHANGED injLog
      ELSE IF ~cfg.target
      THEN /\ workers' = Raise(w, "No valid tmux target found")
           /\ UNCHANGED injLog
      ELSE \E valid \in BOOLEAN :
             IF TargetRejected(valid)
             THEN /\ injLog' = Append(injLog, InjEntry("list-panes", << >>, w, valid))
                  /\ workers' = Raise(w, "Target session/pane is no longer valid")
             ELSE \E ok, ar \in BOOLEAN :
                    /\ injLog' = injLog \o << InjEntry("list-panes", << >>, w, valid),
                                              InjEntry("send-keys", text, w, ok) >>
                    /\ workers' = AfterInject(w, ok, ar)

\* self._tmux_injector.inject_text(sanitized), then the auto-return step
WorkerInject(w) ==
  /\ workers[w].pc = "inject"
  /\ IF cfg.mode = "focused" THEN FocusedInject(w) ELSE TmuxInject(w)
  /\ UNCHANGED << auxVars, kbdVars, cfg, sessions, timerRef, thr, acRec, nCalls, nCancels, events, sttLog >>

WorkerCompleteLock(w) ==
  /\ workers[w].pc = "complete_lock"
  /\ WriteStatus("complete")
  /\ workers' = [workers EXCEPT ![w].pc = "complete_notify",
                                ![w].seq = Stamp + 1]
  /\ UNCHANGED << auxVars, kbdVars, cfg, timerRef, thr, acRec, nCalls, nCancels, events, injLog, sttLog >>

WorkerCompleteNotify(w) ==
  /\ workers[w].pc = "complete_notify"
  /\ EmitState("complete", workers[w].owner, w, workers[w].seq)
  /\ workers' = [workers EXCEPT ![w].pc = "done"]
  /\ UNCHANGED << auxVars, kbdVars, cfg, sessions, timerRef, thr, acRec, nCalls, nCancels, injLog, sttLog >>

\* except Exception as e: status = ERROR, error = str(e), under the lock
WorkerErrorLock(w) ==
  /\ workers[w].pc = "error_lock"
  /\ WriteStatusError("error", workers[w].msg)
  /\ workers' = [workers EXCEPT ![w].pc = "error_notify",
                                ![w].seq = Stamp + 1]
  /\ UNCHANGED << auxVars, kbdVars, cfg, timerRef, thr, acRec, nCalls, nCancels, events, injLog, sttLog >>

\* self._notify_state_change(ERROR); self._on_error(error_msg)
WorkerErrorNotify(w) ==
  /\ workers[w].pc = "error_notify"
  /\ events' = events \o << StateEvent("error", workers[w].owner, w, workers[w].seq),
                            Event("error", workers[w].msg, workers[w].owner, w) >>
  /\ workers' = [workers EXCEPT ![w].pc = "done"]
  /\ UNCHANGED << auxVars, kbdVars, cfg, sessions, timerRef, thr, acRec, nCalls, nCancels, injLog, sttLog >>

SessNext ==
  \/ StartLock
  \/ StartCapture
  \/ StartNotify
  \/ \E t \in {Hot} \cup Timers : StopAudio(t)
  \/ \E t \in {Hot} \cup Timers : StopLock(t)
  \/ \E t \in {Hot} \cup Timers : StopNotify(t)
  \/ CancelAudio
  \/ CancelLock
  \/ CancelNotify
  \/ \E w \in WorkerIds : WorkerGate(w)
  \/ \E w \in WorkerIds : WorkerSkipNotify(w)
  \/ \E w \in WorkerIds : WorkerJoinTimeout(w)
  \/ \E w \in WorkerIds : WorkerTimeoutNotify(w)
  \/ \E w \in WorkerIds : AbandonedTranscribeEnds(w)
  \/ \E w \in WorkerIds : WorkerJoinDone(w)
  \/ \E w \in WorkerIds : WorkerOnTranscription(w)
  \/ \E w \in WorkerIds : WorkerInjectingLock(w)
  \/ \E w \in WorkerIds : WorkerInjectingNotify(w)
  \/ \E w \in WorkerIds : WorkerInject(w)
  \/ \E w \in WorkerIds : WorkerCompleteLock(w)
  \/ \E w \in WorkerIds : WorkerCompleteNotify(w)
  \/ \E w \in WorkerIds : WorkerErrorLock(w)
  \/ \E w \in WorkerIds : WorkerErrorNotify(w)

(***************************************************************************)
(* core/keyboard_monitor.py: the hotkey monitor.  The listener thread runs *)
(* the on_press and on_release handlers, one queued native event at a      *)
(* time; press n arms watchdog timer n and starts poller thread n.         *)
(***************************************************************************)
PressIds == 1..MaxPresses

KbdInit ==
  /\ keyDown = FALSE
  /\ quartzOk \in BOOLEAN
  /\ kPending = << >>
  /\ kListener = "none"
  /\ kState = "idle"
  /\ kWatchdogRef = 0
  /\ kWatchdog = [k \in PressIds |-> "unborn"]
  /\ kStopPolling = FALSE
  /\ kPoller = [k \in PressIds |-> "unborn"]
  /\ kStop = "idle"
  /\ kPresses = 0
  /\ kLog = << >>
  /\ kHeld = [queued |-> << >>, served |-> FALSE]

\* A delivered callback; n is history: the press the monitor was serving,
\* via and src the path and the thread that delivered it.
KEvent(cb, n, via, src) == [cb |-> cb, n |-> n, via |-> via, src |-> src]

\* self._cancel_watchdog(): Timer.cancel() stops a timer that has not fired
CancelWatchdog ==
  [kWatchdog EXCEPT ![kWatchdogRef] = IF @ = "armed" THEN "cancelled" ELSE @]

WatchdogAfterCancel == IF kWatchdogRef = 0 THEN kWatchdog ELSE CancelWatchdog

\* Mutant: a release path that does not test the state.
ReleaseGuardMutant(state) == state \in {"idle", "pressed"}

\* The test every release path makes under self._state_lock.
ReleaseGuard(state) == state = "pressed"

\* KeyboardMonitor.start()
KStart ==
  /\ kListener = "none"
  /\ kListener' = "running"
  /\ UNCHANGED << auxVars, sessVars, kHeld, keyDown, quartzOk, kPending, kState, kWatchdogRef, kWatchdog,
                  kStopPolling, kPoller, kStop, kPresses, kLog >>

\* The user presses the key, or the held key auto-repeats: a press event.
KeyPress ==
  /\ kListener = "running"
  /\ Len(kPending) < MaxPending
  /\ kPresses + Cardinality({i \in 1..Len(kPending) : kPending[i] = "press"})
       < MaxPresses
  /\ keyDown' = TRUE
  /\ kPending' = Append(kPending, "press")
  /\ kHeld' = [kHeld EXCEPT !.queued = Append(@, TRUE)]
  /\ UNCHANGED << auxVars, sessVars, quartzOk, kListener, kState, kWatchdogRef, kWatchdog,
                  kStopPolling, kPoller, kStop, kPresses, kLog >>

\* The user lets go; the release event reaches the listener or is swallowed.
KeyRelease(swallowed) ==
  /\ keyDown
  /\ keyDown' = FALSE
  /\ IF swallowed \/ kListener # "running" \/ Len(kPending) >= MaxPending
     THEN kPending' = kPending
     ELSE kPending' = Append(kPending, "release")
  /\ kHeld' = [queued |-> [i \in 1..Len(kHeld.queued) |-> FALSE], served |-> FALSE]
  /\ UNCHANGED << auxVars, sessVars, quartzOk, kListener, kState, kWatchdogRef, kWatchdog,
                  kStopPolling, kPoller, kStop, kPresses, kLog >>

\* on_press(key), key == self._hotkey, under self._state_lock
OnPress ==
  /\ kListener = "running"
  /\ kPending # << >> /\ Head(kPending) = "press"
  /\ kPending' = Tail(kPending)
  /\ IF kState = "idle"
     THEN /\ kState' = "pressed"
          /\ kPresses' = kPresses + 1
          /\ kWatchdog' = [WatchdogAfterCancel EXCEPT ![kPresses + 1] = "armed"]
          /\ kWatchdogRef' = kPresses + 1
          /\ kStopPolling' = FALSE
          /\ kPoller' = [kPoller EXCEPT ![kPresses + 1] = "check"]
          /\ kLog' = Append(kLog, KEvent("press", kPresses + 1, "native", 0))
     ELSE UNCHANGED << kState, kPresses, kWatchdog, kWatchdogRef, kStopPolling,
                       kPoller, kLog >>
  /\ kHeld' = [kHeld EXCEPT !.queued = Tail(@),
                            !.served = IF kState = "idle" THEN Head(kHeld.queued) ELSE @]
  /\ UNCHANGED << auxVars, sessVars, keyDown, quartzOk, kListener, kStop >>

\* on_release(key), key == self._hotkey, under self._state_lock
OnRelease ==
  /\ kListener = "running"
  /\ kPending # << >> /\ Head(kPending) = "release"
  /\ kPending' = Tail(kPending)
  /\ IF ReleaseGuard(kState)
     THEN /\ kState' = "idle"
          /\ kWatchdog' = WatchdogAfterCancel
          /\ kWatchdogRef' = 0
          /\ kStopPolling' = TRUE
          /\ kLog' = Append(kLog, KEvent("release", kPresses, "native", 0))
     ELSE UNCHANGED << kState, kWatchdog, kWatchdogRef, kStopPolling, kLog >>
  /\ UNCHANGED << auxVars, sessVars, kHeld, keyDown, quartzOk, kListener, kPoller, kStop, kPresses >>

\* _poll_key_state: while not self._stop_polling.is_set(): time.sleep(...)
PollCheck(p) ==
  /\ kPoller[p] = "check"
  /\ kPoller' = [kPoller EXCEPT ![p] = IF kStopPolling THEN "exit" ELSE "sample"]
  /\ UNCHANGED << auxVars, sessVars, kHeld, keyDown, quartzOk, kPending, kListener, kState, kWatchdogRef,
                  kWatchdog, kStopPolling, kStop, kPresses, kLog >>

\* _is_key_pressed(): the live key state, or True when the API is unavailable
IsKeyPressed == IF quartzOk THEN keyDown ELSE TRUE

\* if not self._is_key_pressed(): ... break
PollSample(p) ==
  /\ kPoller[p] = "sample"
  /\ kPoller' = [kPoller EXCEPT ![p] = IF IsKeyPressed THEN "check" ELSE "release"]
  /\ UNCHANGED << auxVars, sessVars, kHeld, keyDown, quartzOk, kPending, kListener, kState, kWatchdogRef,
                  kWatchdog, kStopPolling, kStop, kPresses, kLog >>

\* with self._state_lock: if pressed: idle, cancel the watchdog, on_release()
PollRelease(p) ==
  /\ kPoller[p] = "release"
  /\ kPoller' = [kPoller EXCEPT ![p] = "exit"]
  /\ IF ReleaseGuard(kState)
     THEN /\ kState' = "idle"
          /\ kWatchdog' = WatchdogAfterCancel
          /\ kWatchdogRef' = 0
          /\ kLog' = Append(kLog, KEvent("release", kPresses, "poller", p))
     ELSE UNCHANGED << kState, kWatchdog, kWatchdogRef, kLog >>
  /\ UNCHANGED << auxVars, sessVars, kHeld, keyDown, quartzOk, kPending, kListener, kStopPolling, kStop,
                  kPresses >>

\* The watchdog timer's interval elapses before it was cancelled.
WatchdogFire(k) ==
  /\ kWatchdog[k] = "armed"
  /\ kWatchdog' = [kWatchdog EXCEPT ![k] = "firing"]
  /\ UNCHANGED << auxVars, sessVars, kHeld, keyDown, quartzOk, kPending, kListener, kState, kWatchdogRef,
                  kStopPolling, kPoller, kStop, kPresses, kLog >>

\* _force_release, under self._state_lock
ForceRelease(k) ==
  /\ kWatchdog[k] = "firing"
  /\ kWatchdog' = [kWatchdog EXCEPT ![k] = "done"]
  /\ IF ReleaseGuard(kState)
     THEN /\ kState' = "idle"
          /\ kLog' = Append(kLog, KEvent("release", kPresses, "watchdog", k))
     ELSE UNCHANGED << kState, kLog >>
  /\ UNCHANGED << auxVars, sessVars, kHeld, keyDown, quartzOk, kPending, kListener, kWatchdogRef,
                  kStopPolling, kPoller, kStop, kPresses >>

\* stop(): self._cancel_watchdog(); self._stop_polling.set()
KStopCancel ==
  /\ kStop = "idle"
  /\ kListener # "none"
  /\ kStop' = "listener"
  /\ kWatchdog' = WatchdogAfterCancel
  /\ kWatchdogRef' = 0
  /\ kStopPolling' = TRUE
  /\ UNCHANGED << auxVars, sessVars, kHeld, keyDown, quartzOk, kPending, kListener, kState, kPoller,
                  kPresses, kLog >>

\* stop(): the listener is stopped and joined; then self._state = IDLE
KStopListener ==
  /\ kStop = "listener"
  /\ kStop' = "done"
  /\ kListener' = "stopped"
  /\ kPending' = << >>
  /\ kState' = "idle"
  /\ kHeld' = [kHeld EXCEPT !.queued = << >>]
  /\ UNCHANGED << auxVars, sessVars, keyDown, quartzOk, kWatchdogRef, kWatchdog, kStopPolling,
                  kPoller, kPresses, kLog >>

KbdNext ==
  \/ KStart
  \/ KeyPress
  \/ \E swallowed \in BOOLEAN : KeyRelease(swallowed)
  \/ OnPress
  \/ OnRelease
  \/ \E p \in PressIds : PollCheck(p)
  \/ \E p \in PressIds : PollSample(p)
  \/ \E p \in PressIds : PollRelease(p)
  \/ \E k \in PressIds : WatchdogFire(k)
  \/ \E k \in PressIds : ForceRelease(k)
  \/ KStopCancel
  \/ KStopListener

(***************************************************************************)
(* The specifications: each component runs with the other one at rest.     *)
(***************************************************************************)
vars == << sessVars, kbdVars, sanVars, capVars, trVars, appVars, tgtVars, tuiVars, lbVars >>

SessRest ==
  /\ cfg = [mode |-> "focused", target |-> FALSE]
  /\ sessions = << >>
  /\ timerRef = 0
  /\ thr = [t \in Threads |-> IdleThread]
  /\ acRec = FALSE
  /\ nCalls = 0
  /\ nCancels = 0
  /\ workers = << >>
  /\ events = << >>
  /\ injLog = << >>
  /\ sttLog = {}

KbdRest ==
  /\ keyDown = FALSE
  /\ quartzOk = TRUE
  /\ kPending = << >>
  /\ kListener = "none"
  /\ kState = "idle"
  /\ kWatchdogRef = 0
  /\ kWatchdog = [k \in PressIds |-> "unborn"]
  /\ kStopPolling = FALSE
  /\ kPoller = [k \in PressIds |-> "unborn"]
  /\ kStop = "idle"
  /\ kPresses = 0
  /\ kLog = << >>
  /\ kHeld = [queued |-> << >>, served |-> FALSE]

Init == SessInit /\ KbdRest /\ SanRest /\ CapRest /\ TrRest /\ AppRest /\ TgtRest /\ TuiRest /\ LbRest

Next == SessNext

Spec == Init /\ [][Next]_vars

(***************************************************************************)
(* Scheduling of the orchestrator's threads: a call that was entered runs  *)
(* to its end, an armed max-duration timer fires, and a worker thread and  *)
(* its transcribe thread run.  Nothing obliges the user to press, release  *)
(* or cancel.                                                              *)
(***************************************************************************)
\* The steps of worker thread w.
WorkerStep(w) ==
  \/ WorkerGate(w)
  \/ WorkerSkipNotify(w)
  \/ WorkerJoinTimeout(w)
  \/ WorkerTimeoutNotify(w)
  \/ WorkerJoinDone(w)
  \/ WorkerOnTranscription(w)
  \/ WorkerInjectingLock(w)
  \/ WorkerInjectingNotify(w)
  \/ WorkerInject(w)
  \/ WorkerCompleteLock(w)
  \/ WorkerCompleteNotify(w)
  \/ WorkerErrorLock(w)
  \/ WorkerErrorNotify(w)

SessFairness ==
  /\ WF_vars(StartCapture \/ StartNotify \/ StopLock(Hot) \/ StopNotify(Hot))
  /\ WF_vars(CancelLock \/ CancelNotify)
  /\ \A t \in Timers : WF_vars(StopAudio(t) \/ StopLock(t) \/ StopNotify(t))
  /\ \A w \in 1..MaxCalls : WF_vars(w \in WorkerIds /\ WorkerStep(w))

FairSpec == Init /\ [][Next]_vars /\ SessFairness

KbdSpecInit == KbdInit /\ SessRest /\ SanRest /\ CapRest /\ TrRest /\ AppRest /\ TgtRest /\ TuiRest /\ LbRest

KbdSpec == KbdSpecInit /\ [][KbdNext]_vars

\* The listener thread, the pollers and the timers are threads the scheduler
\* runs: each of their steps that stays enabled is eventually taken.
KbdFairness ==
  /\ WF_vars(OnPress)
  /\ WF_vars(OnRelease)
  /\ \A p \in PressIds :
       /\ WF_vars(PollCheck(p))
       /\ WF_vars(PollSample(p))
       /\ WF_vars(PollRelease(p))
       /\ WF_vars(WatchdogFire(p))
       /\ WF_vars(ForceRelease(p))
  /\ WF_vars(KStopListener)

KbdFairSpec == KbdSpecInit /\ [][KbdNext]_vars /\ KbdFairness


(***************************************************************************)
(* The claims.                                                             *)
(***************************************************************************)
Terminal == {"complete", "timeout", "cancelled", "error", "skipped"}

\* The edges of the status graph between existing statuses; idle to recording
\* is the creation of the session.
DagEdges ==
  { << "recording", "transcribing" >>, << "recording", "skipped" >>,
    << "recording", "cancelled" >>, << "transcribing", "timeout" >>,
    << "transcribing", "error" >>, << "transcribing", "complete" >>,
    << "transcribing", "injecting" >>, << "injecting", "complete" >>,
    << "injecting", "error" >> }

EventsBy(w) == SelectSeq(events, LAMBDA e : e.by = w)

EventsOfSession(s) == SelectSeq(events, LAMBDA e : e.sid = s)

Callbacks(es) == [i \in 1..Len(es) |-> << es[i].cb, es[i].arg >>]

SkipReasons ==
  { "No audio captured", "Too short (accidental press?)", "No speech detected" }

\* C1: every change of a session's status follows an edge of the status graph,
\* and a terminal status never changes again.
C1_StatusFollowsDag ==
  [][\A s \in 1..Len(sessions) :
       sessions'[s].status # sessions[s].status
         => << sessions[s].status, sessions'[s].status >> \in DagEdges]_vars

EventsGroupedBySession ==
  \A i, j \in 1..Len(events) : i < j => events[i].sid <= events[j].sid

\* C2: a new session is created only when the previous one is terminal; no
\* callback of session N follows a callback of session N+1, and a worker
\* writes only the session it was dispatched for.
C2_AdmitOnlyFromTerminal ==
  [][/\ (Len(sessions') > Len(sessions) /\ Cur > 0)
          => sessions[Cur].status \in Terminal
     /\ EventsGroupedBySession'
     /\ \A w \in WorkerIds :
          (workers'[w] # workers[w] /\ sessions' # sessions)
            => workers[w].owner = Cur]_vars

\* C3: when cancel() has moved the session to cancelled while the worker still
\* waits for the transcription, the text that arrives later is suppressed: the
\* session is not written and on_transcription is not delivered.
C3_CancelSuppressesResult ==
  [][\A w \in WorkerIds :
       ( /\ workers[w].pc = "join"
         /\ workers[w].owner = Cur
         /\ sessions[Cur].status = "cancelled"
         /\ workers'[w].tthr = "done" )
       => /\ sessions' = sessions
          /\ workers'[w].pc # "on_transcription"]_vars

\* C4: a release that arrives after the max-duration timer ran the stop path,
\* with the session no longer recording, changes no session field, emits no
\* event and dispatches no worker.
C4_ReleaseAfterWatchdogIsNoOp ==
  /\ \A t \in Threads : thr[t].stale => thr[t].pc # "stop_notify"
  /\ \A w \in WorkerIds : ~workers[w].stale

\* C5: a worker whose transcription child was killed for exceeding the timeout
\* delivers exactly the timeout state change and on_error("Transcription
\* timeout"), whichever of the two timeouts expired first.
C5_TimeoutEndsInTimeout ==
  \A w \in WorkerIds :
    (workers[w].pc = "done" /\ workers[w].tthr = "killed")
      => Callbacks(EventsBy(w)) =
           << << "state", "timeout" >>, << "error", "Transcription timeout" >> >>

\* C6: a worker whose payload delivery failed never goes on to complete.
C6_FailedInjectionEndsInError ==
  \A w \in WorkerIds :
    workers[w].failed
      => /\ workers[w].pc \notin {"complete_lock", "complete_notify"}
         /\ \A i \in 1..Len(events) :
              ~(events[i].by = w /\ events[i].cb = "state"
                /\ events[i].arg = "complete")

ReachesRecognizer(audio) ==
  AudioLen(audio) >= 4800 /\ AudioSumSq(audio) >= 100 * AudioLen(audio)

\* C9: transcribe is invoked only with buffers of at least 4800 samples whose
\* RMS is at least 0.01, and no such buffer is gated.
C9_GateKeepsShortAndSilentOut ==
  /\ \A a \in sttLog : ReachesRecognizer(a)
  /\ \A w \in WorkerIds :
       workers[w].pc = "skip_notify" => ~ReachesRecognizer(workers[w].audio)

\* A buffer of exactly 4800 samples of amplitude 0.01 was handed to transcribe
\* and some buffer that fails a validation check was gated.
C9_Witness ==
  /\ << [n |-> 4800, amp |-> 10] >> \in sttLog
  /\ \E w \in WorkerIds :
       /\ workers[w].pc = "skip_notify"
       /\ ~ReachesRecognizer(workers[w].audio)

\* C10: the callbacks of a gated session are exactly recording and then
\* skipped(reason), and the status is idle afterwards.
C10_GatedSessionEvents ==
  \A w \in WorkerIds :
    (workers[w].pc = "done" /\ workers[w].msg \in SkipReasons)
      => /\ Callbacks(EventsOfSession(workers[w].owner)) =
              << << "state", "recording" >>, << "skipped", workers[w].msg >> >>
         /\ StatusOf(workers[w].owner) = "idle"

C8_EveryPressReleased ==
  \A n \in PressIds :
    (kPresses >= n)
      ~> (\E i \in 1..Len(kLog) : kLog[i].cb = "release" /\ kLog[i].n = n)

\* The payload deliveries (typed text, send-keys) worker w made.
DeliveriesBy(w) ==
  SelectSeq(injLog, LAMBDA e : e.w = w /\ e.cmd \in {"type", "send-keys"})

HasStateEvent(w, st) ==
  \E i \in 1..Len(events) :
    events[i].by = w /\ events[i].cb = "state" /\ events[i].arg = st

\* C11: a session with a non-blank transcription and a successful injection
\* emits recording, transcribing, on_transcription(text), injecting, complete
\* in this order; the injector is called once, between injecting and complete,
\* with the transcription sanitized once.
C11_SuccessfulSessionEvents ==
  \A w \in WorkerIds :
    /\ (DeliveriesBy(w) # << >>)
         => HasStateEvent(w, "injecting") /\ workers[w].pc # "inject"
    /\ workers[w].pc = "inject" => ~HasStateEvent(w, "complete")
    /\ ( /\ workers[w].pc = "done"
         /\ ~IsBlank(workers[w].text)
         /\ DeliveriesBy(w) # << >>
         /\ \A i \in 1..Len(DeliveriesBy(w)) : DeliveriesBy(w)[i].ok )
         => /\ Callbacks(EventsOfSession(workers[w].owner)) =
                 << << "state", "recording" >>, << "state", "transcribing" >>,
                    << "transcription", workers[w].text >>,
                    << "state", "injecting" >>, << "state", "complete" >> >>
            /\ Len(DeliveriesBy(w)) = 1
            /\ DeliveriesBy(w)[1].text =
                 Sanitize(workers[w].text, DefaultMaxLength, TRUE)

\* Worker w's list-panes validation of the target failed.
ValidationFailed(w) ==
  \E i \in 1..Len(injLog) :
    injLog[i].w = w /\ injLog[i].cmd = "list-panes" /\ ~injLog[i].ok

StateEventsOf(es) == SelectSeq(es, LAMBDA e : e.cb = "state")

InvalidTargetMsg == "Target session/pane is no longer valid"

EscapedMsgs == {"Failed to start recording", "Failed to stop recording"}

\* C13: no collaborator exception leaves start_recording, stop_recording or
\* the worker; every on_error callback follows the error or timeout status
\* change of the same session, written by the same thread.
C13_FailuresBecomeErrorStatus ==
  \A i \in 1..Len(events) :
    events[i].cb = "error"
      => /\ events[i].arg \notin EscapedMsgs
         /\ i > 1
         /\ events[i - 1].cb = "state"
         /\ events[i - 1].arg \in {"error", "timeout"}
         /\ events[i - 1].sid = events[i].sid
         /\ events[i - 1].by = events[i].by

\* C14: the state-change callbacks of one session are delivered in the order
\* in which the statuses were written under the lock.
C14_CallbackOrderIsWriteOrder ==
  \A i, j \in 1..Len(events) :
    ( /\ i < j
      /\ events[i].cb = "state" /\ events[j].cb = "state"
      /\ events[i].sid = events[j].sid )
      => events[i].seq < events[j].seq

\* C15: every session that entered recording eventually reaches a terminal
\* status (or the calls of the model's bound MaxCalls are used up).
C15_SessionReachesTerminal ==
  \A s \in 1..MaxCalls :
    (Len(sessions) >= s)
      ~> ( \/ Len(sessions) >= s /\ sessions[s].status \in Terminal
           \/ nCalls = MaxCalls )

\* C16: a session's transcription is set only while its status is injecting
\* or complete.
C16_TranscriptionOnlyWhenInjected ==
  \A s \in 1..Len(sessions) :
    sessions[s].transcription # NoText
      => sessions[s].status \in {"injecting", "complete"}

\* The reason of the first failing check: empty, shorter than 0.3 s, silent.
FirstFailingCheck(audio) ==
  IF audio = << >> THEN "No audio captured"
  ELSE IF AudioLen(audio) < 4800 THEN "Too short (accidental press?)"
  ELSE "No speech detected"

Escaped ==
  \E i \in 1..Len(events) :
    events[i].cb = "error" /\ events[i].arg \in EscapedMsgs

EnterSent(w) ==
  \E i \in 1..Len(injLog) : injLog[i].w = w /\ injLog[i].cmd = "enter"

\* Worker w's payload was delivered.
Delivered(w) ==
  \E i \in 1..Len(DeliveriesBy(w)) : DeliveriesBy(w)[i].ok

\* C18: once a worker is past the injection, it has submitted Enter exactly if
\* auto_return was true, the injector is the tmux injector and the payload
\* was delivered; with the focused injector a delivered non-blank text ends
\* in complete whatever auto_return is.
C18_EnterIffAutoReturnOnTmux ==
  \A w \in WorkerIds :
    (DeliveriesBy(w) # << >> /\ workers[w].pc = "done")
      => /\ EnterSent(w)
              <=> (workers[w].ar /\ cfg.mode = "tmux" /\ Delivered(w))
         /\ (cfg.mode = "focused" /\ Delivered(w))
              => HasStateEvent(w, "complete")

\* C19: what reaches the focused injector is the transcription sanitized
\* without shell escaping, what reaches the tmux injector is the transcription
\* sanitized with shell escaping.
C19_EscapingFollowsInjectionMode ==
  \A i \in 1..Len(injLog) :
    /\ injLog[i].cmd = "type"
         => injLog[i].text =
              Sanitize(workers[injLog[i].w].text, DefaultMaxLength, FALSE)
    /\ injLog[i].cmd = "send-keys"
         => injLog[i].text =
              Sanitize(workers[injLog[i].w].text, DefaultMaxLength, TRUE)


(***************************************************************************)
(* The sanitizer on its own: one object, one call of sanitize.             *)
(***************************************************************************)
SanSpecInit == SanInit /\ SessRest /\ KbdRest /\ CapRest /\ TrRest /\ AppRest /\ TgtRest /\ TuiRest /\ LbRest

SanNext ==
  \/ SanitizeCall /\ UNCHANGED << sessVars, kbdVars, capVars, trVars, appVars, tgtVars, tuiVars, lbVars >>
  \/ SanitizeAgain /\ UNCHANGED << sessVars, kbdVars, capVars, trVars, appVars, tgtVars, tuiVars, lbVars >>

SanSpec == SanSpecInit /\ [][SanNext]_vars

\* The set the escaping step works on, sanitizer.py line 10.
MetaSet == { SHELL_METACHARACTERS[i] : i \in 1..Len(SHELL_METACHARACTERS) }

\* Reading a text left to right as backslash pairs: a backslash takes the
\* character after it as the second of its pair; any other character of the
\* set met outside a pair is unescaped, and so is a backslash with nothing
\* after it.
RECURSIVE ReadsAsPairs(_)
ReadsAsPairs(text) ==
  IF text = << >> THEN TRUE
  ELSE IF Head(text) = "BS"
       THEN Len(text) >= 2 /\ ReadsAsPairs(SubSeq(text, 3, Len(text)))
       ELSE Head(text) \notin MetaSet /\ ReadsAsPairs(Tail(text))

\* C20: with escape_shell true, the text returned by sanitize has no
\* unescaped shell metacharacter when read left to right as backslash
\* pairs, also when it was truncated to max_length.
C20_NoUnescapedMetacharacter ==
  (sanOut # NoResult /\ sanCfg.escape_shell) => ReadsAsPairs(sanOut)


\* C21: sanitize is idempotent for every input and every setting of
\* escape_shell and max_length: sanitize(sanitize(x)) = sanitize(x).
C21_SanitizeIdempotent ==
  sanOut2 # NoResult => sanOut2 = sanOut


\* A match of ESC [ parameters letter somewhere in the text.
HasAnsi(text) == \E i \in 1..Len(text) : AnsiMatchLen(text, i) > 0

HasNewline(text) == \E i \in 1..Len(text) : text[i] \in {"LF", "CR"}

\* C22: for every input and every setting of escape_shell, the text returned
\* by sanitize contains no carriage return, no line feed and no ANSI CSI
\* escape sequence, also not one that forms when an inner sequence is removed.
C22_NoNewlineNoAnsi ==
  sanOut # NoResult => (~HasNewline(sanOut) /\ ~HasAnsi(sanOut))


\* "echo \$PATH\; rm -rf /": one backslash before the $ and before the ;
EchoPathEscapedOnce ==
  << "e", "c", "h", "o", " ", "BS", "$", "P", "A", "T", "H", "BS", ";", " ",
     "r", "m", " ", "-", "r", "f", " ", "/" >>

\* C23: with escape_shell true and max_length 500, sanitize of
\* "echo $PATH; rm -rf /" returns the input with exactly one backslash
\* inserted before the $ and before the ; and nothing else changed.
C23_EchoPathEscapedOnce ==
  (/\ sanOut # NoResult
   /\ sanIn = EchoPath
   /\ sanCfg = [max_length |-> DefaultMaxLength, escape_shell |-> TRUE])
  => sanOut = EchoPathEscapedOnce


\* C24: for every input, the length of the text returned by sanitize is at
\* most max_length, also when escaping lengthens the text.
C24_LengthAtMostMaxLength ==
  /\ sanOut # NoResult => Len(sanOut) <= sanCfg.max_length
  /\ sanOut2 # NoResult => Len(sanOut2) <= sanCfg.max_length

\* An input that fits max_length, grows beyond it by escaping, and comes
\* back with exactly max_length characters.
C24_Witness ==
  /\ sanOut # NoResult
  /\ sanCfg.escape_shell
  /\ Len(sanIn) <= sanCfg.max_length
  /\ Len(EscapeShell(ReplaceNewlines(RemoveAnsi(sanIn)))) > sanCfg.max_length
  /\ Len(sanOut) = sanCfg.max_length


(***************************************************************************)
(* The audio capture on its own.                                           *)
(***************************************************************************)
CapSpecInit == CapInit /\ SessRest /\ KbdRest /\ SanRest /\ TrRest /\ AppRest /\ TgtRest /\ TuiRest /\ LbRest

CapNext ==
  \/ CapStart /\ UNCHANGED << sessVars, kbdVars, sanVars, trVars, appVars, tgtVars, tuiVars, lbVars >>
  \/ CapStopEntry /\ UNCHANGED << sessVars, kbdVars, sanVars, trVars, appVars, tgtVars, tuiVars, lbVars >>
  \/ CapStopExit /\ UNCHANGED << sessVars, kbdVars, sanVars, trVars, appVars, tgtVars, tuiVars, lbVars >>
  \/ CapCancelEntry /\ UNCHANGED << sessVars, kbdVars, sanVars, trVars, appVars, tgtVars, tuiVars, lbVars >>
  \/ CapCancelExit /\ UNCHANGED << sessVars, kbdVars, sanVars, trVars, appVars, tgtVars, tuiVars, lbVars >>
  \/ \E s \in 1..MaxStreams : CbInvoke(s) /\ UNCHANGED << sessVars, kbdVars, sanVars, trVars, appVars, tgtVars, tuiVars, lbVars >>
  \/ \E s \in 1..MaxStreams : CbRun(s) /\ UNCHANGED << sessVars, kbdVars, sanVars, trVars, appVars, tgtVars, tuiVars, lbVars >>

CapSpec == CapSpecInit /\ [][CapNext]_vars


LastCall == IF capHist = << >> THEN "none" ELSE capHist[Len(capHist)]

\* The last call to finish was a stop_recording or a cancel_recording.
StoppedOrCancelled ==
  LastCall \in {"stop", "stop_idle", "stop_raised",
                "cancel", "cancel_idle", "cancel_raised"}

StopReturned == capHist' # capHist /\ capHist'[Len(capHist')] = "stop"

\* C25: under any interleaving of the device callback with start_recording,
\* stop_recording and cancel_recording, the buffer stop_recording returns is
\* the in-order concatenation of the frames the callback appended since the
\* matching start_recording, and no frame is appended once stop_recording
\* or cancel_recording has finished.
C25_StopReturnsAppendedFrames ==
  [][ /\ StopReturned => capRet' = capSince
      /\ Len(capFrames') > Len(capFrames) => ~StoppedOrCancelled ]_vars

\* With no call having raised, stop_recording returned the two frames the
\* callback appended, in the order they were appended.
C25_Witness ==
  /\ LastCall = "stop"
  /\ Len(capRet) = 2
  /\ capRet[1].k < capRet[2].k
  /\ \A i \in 1..Len(capHist) : capHist[i] \in {"start", "stop", "cancel"}


\* stop_recording holds the mutex and waits in stop_stream() for the stream
\* to stop, while the stream's callback in flight waits for the mutex.
StopWaitsOnBlockedCallback ==
  /\ capLock = "stop"
  /\ capCb[capStream] # NoFrame

\* C26: the device callback never blocks on a mutex that is held across
\* device I/O: no reachable state has stop_recording holding the mutex while
\* it waits for the stream to stop and the callback in flight waiting for
\* that same mutex.
C26_CallbackNeverBlocksStop == ~StopWaitsOnBlockedCallback


\* C27: after stop_recording returns the recording it stopped, the internal
\* state is cleared:
\* is_recording is false, no stream is held and the frame buffer is empty,
\* so that duration_seconds reports 0.
C27_StopClearsState ==
  LastCall = "stop" =>
    (~capRec /\ capStream = 0 /\ capFrames = << >> /\ DurationFrames = 0)


StartedRecording == capHist' # capHist /\ capHist'[Len(capHist')] = "start"

\* C28: if stopping or closing the stream raises during stop_recording, the
\* component still ends idle (is_recording false, the mutex released), and
\* a following start_recording begins a fresh recording with an empty buffer.
C28_FailedStopEndsIdle ==
  [][ /\ LastCall' = "stop_raised" => (~capRec' /\ capLock' = "free")
      /\ (LastCall = "stop_raised" /\ StartedRecording) =>
           /\ capRec'
           /\ capFrames' = << >>
           /\ capStream' # capStream
           /\ capStreams[capStream'] = "unborn"
           /\ capStreams'[capStream'] = "active" ]_vars

\* A stop_recording raised after a frame was recorded, and the next
\* start_recording began a recording.
C28_Witness ==
  /\ Len(capHist) >= 2
  /\ capHist[Len(capHist) - 1] = "stop_raised"
  /\ LastCall = "start"
  /\ capFed > 0
  /\ capRec


(***************************************************************************)
(* SpeechToText.transcribe on its own.                                     *)
(***************************************************************************)
TrSpecInit == TrInit /\ SessRest /\ KbdRest /\ SanRest /\ CapRest /\ AppRest /\ TgtRest /\ TuiRest /\ LbRest

TrNext ==
  \/ TrEntry /\ UNCHANGED << sessVars, kbdVars, sanVars, capVars, appVars, tgtVars, tuiVars, lbVars >>
  \/ TrRun /\ UNCHANGED << sessVars, kbdVars, sanVars, capVars, appVars, tgtVars, tuiVars, lbVars >>
  \/ TrRead /\ UNCHANGED << sessVars, kbdVars, sanVars, capVars, appVars, tgtVars, tuiVars, lbVars >>
  \/ TrCleanup /\ UNCHANGED << sessVars, kbdVars, sanVars, capVars, appVars, tgtVars, tuiVars, lbVars >>

TrSpec == TrSpecInit /\ [][TrNext]_vars


\* The child ended within the timeout but with a non-zero exit code, without
\* a result file, with a malformed one, or with one whose error field is set.
WorkerFailed ==
  /\ ~trIn.timedOut
  /\ \/ trIn.code # 0
     \/ trIn.file \in {"missing", "garbage", "not_object", "no_text", "error"}

ChildRan == trPc = "done" /\ ~trIn.short /\ ~trIn.saveFails

\* C29: transcribe reports the timeout error only when the child exceeded
\* the timeout; a non-zero exit code, a missing result file, a malformed
\* result file and a result whose error field is set each raise a worker
\* failure that differs from the timeout error, and none returns a result.
C29_WorkerFailureIsNotTimeout ==
  /\ trOut.kind = "TimeoutError" => (ChildRan /\ trIn.timedOut)
  /\ (ChildRan /\ WorkerFailed) => trOut.kind = "RuntimeError"

\* The child exited with code 0 and left a result file that is not JSON.
C29_Witness ==
  /\ ChildRan
  /\ ~trIn.timedOut
  /\ trIn.code = 0
  /\ trIn.file = "garbage"
  /\ trOut = Raised("RuntimeError", "Transcription failed")

\* C30: on every exit path of transcribe that created a scratch file
\* (success, worker failure, timeout, a failure while writing the audio
\* file), neither the audio scratch file nor the result file exists once
\* transcribe has returned or raised.
C30_ScratchFilesRemoved ==
  trPc = "done" => (~trAudioFile /\ trResultFile = "missing")


ReleaseDelivered(n) ==
  \E i \in 1..Len(kLog) : kLog[i].cb = "release" /\ kLog[i].n = n

\* Poller p is still going round its loop and nothing tells it to leave.
PollerStaysActive(p) == kPoller[p] \in {"check", "sample"} /\ ~kStopPolling

\* C32: after a release has been delivered by the native event, the poller
\* or the watchdog, the watchdog timer of that press is cancelled and no
\* poller thread of that press remains active; poller threads do not
\* accumulate across successive presses.
C32_ReleaseStopsWatchdogAndPoller ==
  \A n \in PressIds :
    ReleaseDelivered(n) => (kWatchdog[n] # "armed" /\ ~PollerStaysActive(n))

\* The key has been held without interruption since the press event that
\* on_press accepted for the press now served.
KeyHeldSincePress == keyDown /\ kHeld.served

LastK == kLog'[Len(kLog')]

\* C37: a release synthesized by the watchdog or the poller is delivered
\* only for the press that armed it: one left over from an earlier press
\* never delivers on_release for a later press whose key is still held.
C37_SynthesizedReleaseForOwnPress ==
  [][ (/\ Len(kLog') > Len(kLog)
       /\ LastK.cb = "release"
       /\ LastK.via \in {"poller", "watchdog"}
       /\ LastK.src # LastK.n) => ~KeyHeldSincePress ]_vars


\* C38: the orchestrator never calls inject_text with an empty payload: for
\* every non-blank transcription, also one whose sanitized form is empty,
\* a worker that has come to the inject_text call holds a non-empty payload.
C38_NoEmptyPayloadInjected ==
  \A w \in WorkerIds :
    (workers[w].pc = "inject" /\ ~IsBlank(workers[w].text))
      => workers[w].payload # << >>


\* Worker w reported the timeout of its transcription at position i of events.
TimeoutAt(w, i) ==
  /\ i \in 1..Len(events)
  /\ events[i].by = w /\ events[i].cb = "state" /\ events[i].arg = "timeout"

TimedOut(w) == \E i \in 1..Len(events) : TimeoutAt(w, i)

\* The transcription thread that worker w gave up on ends in this step.
AbandonedThreadEnds(w) ==
  /\ w \in WorkerIds
  /\ workers[w].pc \in {"timeout_notify", "done"}
  /\ workers[w].tthr = "running"
  /\ workers'[w].tthr # "running"

\* A worker that reported the timeout does nothing afterwards but report the
\* timeout error: no other callback, no injection, no further step.
TimedOutWorkersSilent ==
  \A w \in WorkerIds : \A i \in 1..Len(events) :
    TimeoutAt(w, i) =>
      /\ \A j \in (i + 1)..Len(events) :
           events[j].by = w =>
             (events[j].cb = "error" /\ events[j].arg = "Transcription timeout")
      /\ \A k \in 1..Len(injLog) : injLog[k].w # w
      /\ workers[w].pc \in {"timeout_notify", "done"}

\* C39: after a session ended in timeout, a result the abandoned
\* transcription thread produces later is discarded: it is never delivered
\* through on_transcription, never injected, and never changes the
\* session's status or transcription field.
C39_LateResultDiscarded ==
  [][ /\ \A w \in 1..MaxCalls :
           AbandonedThreadEnds(w) => UNCHANGED << sessions, events, injLog >>
      /\ TimedOutWorkersSilent
      /\ TimedOutWorkersSilent' ]_vars

\* A worker reported the timeout and returned, and the thread it gave up on
\* ended later with a result.
C39_Witness ==
  \E w \in WorkerIds :
    /\ TimedOut(w)
    /\ workers[w].pc = "done"
    /\ workers[w].tthr = "done"


(***************************************************************************)
(* The application's shutdown path on its own.                             *)
(***************************************************************************)
AppSpecInit == AppInit /\ SessRest /\ KbdRest /\ SanRest /\ CapRest /\ TrRest /\ TgtRest /\ TuiRest /\ LbRest

AppNext ==
  \/ AppStart /\ UNCHANGED << sessVars, kbdVars, sanVars, capVars, trVars, tgtVars, tuiVars, lbVars >>
  \/ AppSignal /\ UNCHANGED << sessVars, kbdVars, sanVars, capVars, trVars, tgtVars, tuiVars, lbVars >>
  \/ AppLoopExit /\ UNCHANGED << sessVars, kbdVars, sanVars, capVars, trVars, tgtVars, tuiVars, lbVars >>
  \/ AppTuiExit /\ UNCHANGED << sessVars, kbdVars, sanVars, capVars, trVars, tgtVars, tuiVars, lbVars >>
  \/ AppStop /\ UNCHANGED << sessVars, kbdVars, sanVars, capVars, trVars, tgtVars, tuiVars, lbVars >>
  \/ AppHotkeyPress /\ UNCHANGED << sessVars, kbdVars, sanVars, capVars, trVars, tgtVars, tuiVars, lbVars >>
  \/ AppHotkeyRelease /\ UNCHANGED << sessVars, kbdVars, sanVars, capVars, trVars, tgtVars, tuiVars, lbVars >>
  \/ AppMaxDuration /\ UNCHANGED << sessVars, kbdVars, sanVars, capVars, trVars, tgtVars, tuiVars, lbVars >>
  \/ AppWorkerInject /\ UNCHANGED << sessVars, kbdVars, sanVars, capVars, trVars, tgtVars, tuiVars, lbVars >>

AppSpec == AppSpecInit /\ [][AppNext]_vars

Occurs(what) == \E i \in 1..Len(appLog) : appLog[i] = what

\* C31: after SIGINT or SIGTERM, the shutdown path invokes cancel on the
\* orchestrator and stops the hotkey monitor before the process exits, also
\* when the signal arrives during a recording; no text is injected after
\* the shutdown was requested.
C31_SignalShutsDown ==
  /\ (appMain = "exited" /\ Occurs("signal"))
       => (Occurs("monitor_stop") /\ Occurs("cancel"))
  /\ \A i, j \in 1..Len(appLog) :
       (appLog[i] = "signal" /\ appLog[j] = "inject") => j < i


(***************************************************************************)
(* Target discovery on its own.                                            *)
(***************************************************************************)
TgtSpecInit ==
  TgtInit /\ SessRest /\ KbdRest /\ SanRest /\ CapRest /\ TrRest /\ AppRest /\ TuiRest /\ LbRest

TgtNext ==
  \/ TgtGetBestTarget
       /\ UNCHANGED << sessVars, kbdVars, sanVars, capVars, trVars, appVars, tuiVars, lbVars >>
  \/ TgtRefresh
       /\ UNCHANGED << sessVars, kbdVars, sanVars, capVars, trVars, appVars, tuiVars, lbVars >>

TgtSpec == TgtSpecInit /\ [][TgtNext]_vars

\* Positions of the panes whose command matches an indicator
Matching == { i \in 1..Len(tgtPanes) : RunsClaude(tgtPanes[i]) }

ActiveMatching == { i \in Matching : tgtPanes[i].is_active }

Least(S) == CHOOSE i \in S : \A j \in S : i <= j

\* C33: for every list of panes, get_best_target returns the active pane
\* whose command matches an indicator if there is one; otherwise the first
\* matching pane in enumeration order; otherwise no target.
C33_BestTarget ==
  tgtOut # NotAsked =>
    IF ActiveMatching # {}
    THEN tgtOut = [found |-> TRUE,
                   pane_index |-> tgtPanes[Least(ActiveMatching)].pane_index]
    ELSE IF Matching # {}
    THEN tgtOut = [found |-> TRUE,
                   pane_index |-> tgtPanes[Least(Matching)].pane_index]
    ELSE tgtOut = NoTarget

\* An inactive matching pane is chosen although a later pane matches too
C33_Witness ==
  /\ tgtOut # NotAsked
  /\ ActiveMatching = {}
  /\ Cardinality(Matching) >= 2
  /\ tgtOut.found


(***************************************************************************)
(* The TUI on its own.                                                     *)
(***************************************************************************)
TuiSpecInit ==
  TuiInit /\ SessRest /\ KbdRest /\ SanRest /\ CapRest /\ TrRest /\ AppRest /\ TgtRest /\ LbRest

TuiNext ==
  \/ TuiMount
       /\ UNCHANGED << sessVars, kbdVars, sanVars, capVars, trVars, appVars, tgtVars, lbVars >>
  \/ \E status \in RecordingStatus :
       TuiUpdateStatus(status)
         /\ UNCHANGED << sessVars, kbdVars, sanVars, capVars, trVars, appVars, tgtVars, lbVars >>
  \/ TuiLogSkipped
       /\ UNCHANGED << sessVars, kbdVars, sanVars, capVars, trVars, appVars, tgtVars, lbVars >>
  \/ TuiLogError
       /\ UNCHANGED << sessVars, kbdVars, sanVars, capVars, trVars, appVars, tgtVars, lbVars >>

TuiSpec == TuiSpecInit /\ [][TuiNext]_vars

\* The status recording was delivered, and since then neither another status
\* nor a skipped event
RecordingDeliveredLast ==
  \E i \in 1..Len(tuiEvents) :
    /\ tuiEvents[i] = StatusEvent("recording")
    /\ \A j \in (i + 1)..Len(tuiEvents) : tuiEvents[j] = ErrorEvent

\* C34: the recording timer is started when status recording is delivered
\* and stopped when any non-recording status or a skipped event is
\* delivered: after any sequence of delivered events the timer is running
\* only if the last delivered status is recording.
C34_TimerRunsOnlyWhileRecording == tuiTimer => RecordingDeliveredLast

\* C35: after any sequence of set_status calls on a mounted panel at most
\* one pill is active, and after set_status(s) for a status s that has a
\* pill exactly the pill of s is active and every other pill is inactive.
C35_ExactlyThePillOfStatus ==
  tuiMounted =>
    /\ Cardinality(tuiPills) <= 1
    /\ (tuiSet # NoEvent /\ tuiSet.status \in PillStatuses)
         => tuiPills = { tuiSet.status }

\* The pill of recording went out when transcribing was set
C35_Witness ==
  /\ tuiMounted
  /\ Len(tuiEvents) >= 2
  /\ tuiEvents[1] = StatusEvent("recording")
  /\ tuiSet = StatusEvent("transcribing")
  /\ tuiPills = { "transcribing" }


(***************************************************************************)
(* The log buffer on its own.                                              *)
(***************************************************************************)
LbSpecInit ==
  LbInit /\ SessRest /\ KbdRest /\ SanRest /\ CapRest /\ TrRest /\ AppRest /\ TgtRest /\ TuiRest

LbNext ==
  \/ LbConstruct
       /\ UNCHANGED << sessVars, kbdVars, sanVars, capVars, trVars, appVars, tgtVars, tuiVars >>
  \/ \E entry \in LogEntries :
       LbAppend(entry)
         /\ UNCHANGED << sessVars, kbdVars, sanVars, capVars, trVars, appVars, tgtVars, tuiVars >>
  \/ LbClear
       /\ UNCHANGED << sessVars, kbdVars, sanVars, capVars, trVars, appVars, tgtVars, tuiVars >>

LbSpec == LbSpecInit /\ [][LbNext]_vars

\* The last n items of a sequence, all of it if it is shorter
MostRecent(seq, n) ==
  IF Len(seq) <= n THEN seq ELSE SubSeq(seq, Len(seq) - n + 1, Len(seq))

\* C36: after any sequence of append and clear the buffer holds at most
\* max_size entries, the most recent appends since the last clear in
\* insertion order; constructing it with max_size of 0 or less fails.
C36_MostRecentEntries ==
  /\ lbState = "built" =>
       /\ lbMaxSize > 0
       /\ Len(lbEntries) <= lbMaxSize
       /\ lbEntries = MostRecent(lbHist, lbMaxSize)
  /\ (lbState # "new" /\ lbMaxSize <= 0) => lbState = "raised"

\* More was appended since the last clear than the buffer holds
C36_Witness ==
  /\ lbState = "built"
  /\ Len(lbHist) > lbMaxSize
  /\ Len(lbEntries) = lbMaxSize

=============================================================================
